---- MODULE Spec2Model ----
(***************************************************************************)
(* A model of provisioner/inputs.py: the translation of attrs fields into  *)
(* argparse arguments (AttrParserArgs, ParserFiller), the parse of one     *)
(* command line, and the way back (extract_args, from_args); then the      *)
(* input objects themselves: their storage identities (param_spec,         *)
(* pillar_items) and the derivations of SWUpgradeRepo.pillar_value.        *)
(*                                                                         *)
(* Names are sequences of atoms: the atom "_", the atom "-", or a word     *)
(* holding neither character, so that lstrip('_'), startswith('__') and    *)
(* replace('_', '-') are computed on the text and not assumed.             *)
(* Values are tagged strings: "py:None" is Python's None, "sp:..." the     *)
(* sentinels of provisioner.values, "str:..." a str, "int:..." an int.     *)
(***************************************************************************)
EXTENDS Naturals, Sequences, FiniteSets, TLC

VARIABLES cls, pc, parser, error, cmdline, parsed, out, self, _spec,
          threads, cli_spec, options, disk

vars == <<cls, pc, parser, error, cmdline, parsed, out, self, _spec,
          threads, cli_spec, options, disk>>

\* the variables of the calls made by two threads, of the CLI specification
\* and of the configuration components
others == <<threads, cli_spec, options, disk>>

---------------------------------------------------------------------------
(* Values *)

PyNone == "py:None"
PyTrue == "bool:True"
PyFalse == "bool:False"
NOTHING == "attr:NOTHING"
SP_UNCHANGED == "sp:UNCHANGED"
UNDEFINED == "sp:UNDEFINED"
NONE == "sp:NONE"
DecodeError == "raise:ValueError"
AttributeError == "raise:AttributeError"

\* absence of a key in a metadata dict
ABSENT == "absent"

\* None in an attribute that otherwise holds a name or a list
NoneSeq == <<>>

Str(raw) == "str:" \o raw

---------------------------------------------------------------------------
(* Text operations on names *)

RECURSIVE lstrip(_)
lstrip(name) ==
    IF name # <<>> /\ Head(name) = "_" THEN lstrip(Tail(name)) ELSE name

RECURSIVE lstrip_dash(_)
lstrip_dash(name) ==
    IF name # <<>> /\ Head(name) = "-" THEN lstrip_dash(Tail(name)) ELSE name

startswith2(name, a) == Len(name) >= 2 /\ name[1] = a /\ name[2] = a

replace(name, a, b) ==
    [i \in 1..Len(name) |-> IF name[i] = a THEN b ELSE name[i]]

\* f'no-{name}'
no_dash_name(name) == <<"no", "-">> \o name

\* f'no{name}': the word "no" glued to the front of the text
no_name(name) ==
    IF name = <<>> \/ Head(name) \in {"_", "-"}
    THEN <<"no">> \o name
    ELSE <<"no" \o Head(name)>> \o Tail(name)

\* not v, for the values a field default takes
py_not(v) ==
    IF v \in {PyFalse, PyNone} THEN PyTrue ELSE PyFalse

upper(t) ==
    CASE t = "str" -> "STR"
      [] t = "List" -> "LIST"
      [] t = "bool" -> "BOOL"
      [] t = "Any" -> "ANY"
      [] OTHER -> t

---------------------------------------------------------------------------
(* Fields and schema classes *)

\* a decoder is functools.partial(<cls>.value_from_str, v_type=<v_type>)
NoDecoder == [cls |-> "none", v_type |-> "none"]

\* the METADATA_ARGPARSER dict of a field; a key that is not in the dict is
\* ABSENT (NoneSeq for dest and choices, NoDecoder for type)
NoMeta ==
    [action |-> ABSENT, help |-> ABSENT, metavar |-> ABSENT,
     type |-> NoDecoder, dest |-> NoneSeq, const |-> ABSENT,
     default |-> ABSENT, choices |-> NoneSeq, nargs |-> ABSENT]

\* attr.ib(...): cli says whether METADATA_ARGPARSER is in the metadata
attr_ib(name, type, default, cli, metadata, validator, init) ==
    [name |-> name, type |-> type, default |-> default, cli |-> cli,
     metadata |-> metadata, validator |-> validator, init |-> init,
     converter |-> "none", param_group |-> ""]

ParamGroup_attr_ib(param_group, name, type, default, descr, validator) ==
    [attr_ib(name, type, default, TRUE,
             [NoMeta EXCEPT !.help = descr, !.metavar = PyNone],
             validator, TRUE)
        EXCEPT !.param_group = param_group]

ParamDictItem_attr_ib(name, type, is_key, default, descr, metavar, validator) ==
    attr_ib(name, type, IF is_key THEN NOTHING ELSE default, TRUE,
            [NoMeta EXCEPT !.help = descr, !.metavar = metavar],
            validator, TRUE)

Schema(cname, kind, prefix, pcls, fields) ==
    [cname |-> cname, kind |-> kind, prefix |-> prefix, pcls |-> pcls,
     fields |-> fields]

NTP ==
    Schema("NTP", "group", <<>>, "InputAttrParserArgs", <<
        ParamGroup_attr_ib("ntp", <<"server">>, "str", SP_UNCHANGED,
                           "ntp server ip", "none"),
        ParamGroup_attr_ib("ntp", <<"timezone">>, "str", SP_UNCHANGED,
                           "ntp server timezone", "none") >>)

MgmtNetwork ==
    Schema("MgmtNetwork", "group", <<>>, "InputAttrParserArgs", <<
        ParamGroup_attr_ib("mgmt_network", <<"mgmt", "_", "gateway">>, "str",
                           SP_UNCHANGED, "node mgmt gateway IP", "check_ip4"),
        ParamGroup_attr_ib("mgmt_network",
                           <<"mgmt", "_", "public", "_", "ip">>, "str",
                           SP_UNCHANGED, "node management interface IP",
                           "check_ip4"),
        ParamGroup_attr_ib("mgmt_network", <<"mgmt", "_", "netmask">>, "str",
                           SP_UNCHANGED, "node management interface netmask",
                           "check_ip4"),
        ParamGroup_attr_ib("mgmt_network", <<"mgmt", "_", "interfaces">>,
                           "List", SP_UNCHANGED,
                           "node management network interfaces", "none"),
        ParamGroup_attr_ib("mgmt_network", <<"mgmt", "_", "mtu">>, "str",
                           "int:1500", "node management network mtu",
                           "none") >>)

PillarInputBase ==
    Schema("PillarInputBase", "plain", <<>>, "AttrParserArgs", <<
        attr_ib(<<"keypath">>, "str", NOTHING, TRUE,
                [NoMeta EXCEPT !.help = "pillar key path"], "none", TRUE),
        attr_ib(<<"value">>, "Any", NOTHING, TRUE,
                [NoMeta EXCEPT !.help = "pillar value",
                               !.type = [cls |-> "AttrParserArgs",
                                         v_type |-> "json"]],
                "none", TRUE),
        attr_ib(<<"fpath">>, "str", PyNone, TRUE,
                [NoMeta EXCEPT !.help = "file path relative to pillar roots"],
                "none", TRUE) >>)

SWUpdateRepo ==
    Schema("SWUpdateRepo", "dictitem", <<>>, "InputAttrParserArgs", <<
        ParamDictItem_attr_ib(<<"release">>, "str", TRUE, SP_UNCHANGED,
                              "release version", PyNone, "none"),
        [ParamDictItem_attr_ib(<<"source">>, "str", FALSE, SP_UNCHANGED,
                               "repo source", "str", "check_source")
            EXCEPT !.converter = "source"],
        attr_ib(<<"_", "repo", "_", "params">>, "Dict", "factory:dict",
                FALSE, NoMeta, "none", FALSE),
        attr_ib(<<"_", "metadata">>, "Dict", "factory:dict",
                FALSE, NoMeta, "none", FALSE) >>)

StorageEnclosure ==
    Schema("StorageEnclosure", "group", <<>>, "InputAttrParserArgs", <<
        ParamGroup_attr_ib("storage", <<"controller", "_", "a", "_", "ip">>,
                           "str", SP_UNCHANGED, " Controller A IP",
                           "check_ip4"),
        ParamGroup_attr_ib("storage", <<"controller", "_", "b", "_", "ip">>,
                           "str", SP_UNCHANGED, " Controller B IP",
                           "check_ip4"),
        ParamGroup_attr_ib("storage", <<"controller", "_", "user">>, "str",
                           SP_UNCHANGED, " Controller user", "none"),
        ParamGroup_attr_ib("storage", <<"controller", "_", "secret">>, "str",
                           SP_UNCHANGED, " Controller password", "none") >>)

\* config.HashType and config.ISOVersion: the values of their members
HashTypes == <<"md5", "sha256", "sha512">>

VERSION1 == "1.0.0"
VERSION2 == "2.0.0"

\* the attributes of SWUpgradeRepo in the order attrs gives them: those of
\* SWUpdateRepo it does not declare again, then its own
SWUpgradeRepo ==
    Schema("SWUpgradeRepo", "dictitem", <<>>, "InputAttrParserArgs", <<
        attr_ib(<<"_", "repo", "_", "params">>, "Dict", "factory:dict",
                FALSE, NoMeta, "none", FALSE),
        attr_ib(<<"_", "metadata">>, "Dict", "factory:dict",
                FALSE, NoMeta, "none", FALSE),
        [ParamDictItem_attr_ib(<<"source">>, "str", TRUE, SP_UNCHANGED,
                               "repo source", "str", "check_source")
            EXCEPT !.converter = "source"],
        ParamDictItem_attr_ib(<<"release">>, "str", FALSE, PyNone,
                              "release version", PyNone, "none"),
        attr_ib(<<"hash">>, "str", PyNone, TRUE,
                [NoMeta EXCEPT !.help = "Path to the file with ISO hash"],
                "none", TRUE),
        [attr_ib(<<"hash", "_", "type">>, "str", PyNone, TRUE,
                 [NoMeta EXCEPT !.help = "Optional: hash type",
                                !.choices = HashTypes],
                 "optional_in_HashType", TRUE)
            EXCEPT !.converter = "hash_type"],
        [attr_ib(<<"sig", "_", "file">>, "str", PyNone, TRUE,
                 [NoMeta EXCEPT !.help = "Path to the file with ISO signature"],
                 "path_exists", TRUE)
            EXCEPT !.converter = "path_resolved"],
        [attr_ib(<<"gpg", "_", "pub", "_", "key">>, "str", PyNone, TRUE,
                 [NoMeta EXCEPT !.help = "(Optional) Path to the custom key"],
                 "optional_path_exists", TRUE)
            EXCEPT !.converter = "path_resolved"],
        attr_ib(<<"import", "_", "pub", "_", "key">>, "bool", PyFalse, TRUE,
                [NoMeta EXCEPT !.help = "(Optional) import the key or not"],
                "none", TRUE),
        [ParamDictItem_attr_ib(<<"source", "_", "version">>, "ISOVersion",
                               FALSE, Str(VERSION1),
                               "SW upgrade source version", PyNone,
                               "optional_in_ISOVersion")
            EXCEPT !.converter = "ISOVersion"],
        attr_ib(<<"_", "target", "_", "build">>, "str", PyNone, FALSE,
                NoMeta, "none", TRUE),
        attr_ib(<<"_", "enabled">>, "bool", PyFalse, FALSE,
                NoMeta, "none", TRUE) >>)

SWUpgradeRemoveRepo ==
    Schema("SWUpgradeRemoveRepo", "dictitem", <<>>, "InputAttrParserArgs", <<
        [ParamDictItem_attr_ib(<<"release">>, "str", TRUE, SP_UNCHANGED,
                               "release version", PyNone, "matches_re")
            EXCEPT !.converter = "str"] >>)

\* param.ParamDictItem: the resource's name and the names of the attributes
\* that give an item's key and its value
ParamDictItem(name) ==
    [name |-> name, key |-> <<"pillar", "_", "key">>,
     value |-> <<"pillar", "_", "value">>]

\* the class attribute _param_di
_param_di(c) ==
    IF c.cname = "SWUpdateRepo" THEN ParamDictItem("swupdate/repo")
    ELSE ParamDictItem("swupgrade/repo")

\* Schema classes that are not in inputs.py: the shapes its callers declare
\* (a store_bool action, a parser_prefix, leading underscores).
StoreBool(name, default, descr) ==
    attr_ib(name, "bool", default, TRUE,
            [NoMeta EXCEPT !.help = descr, !.action = "store_bool"],
            "none", TRUE)

RunArgs ==
    Schema("RunArgs", "plain", <<>>, "AttrParserArgs", <<
        StoreBool(<<"dry", "_", "run">>, PyFalse, "dry run"),
        StoreBool(<<"_", "secure">>, PyTrue, "secure mode"),
        attr_ib(<<"verbose">>, "bool", PyFalse, TRUE,
                [NoMeta EXCEPT !.help = "be verbose"], "none", TRUE),
        attr_ib(<<"_", "token">>, "str", PyNone, TRUE,
                [NoMeta EXCEPT !.help = "a token"], "none", TRUE) >>)

RepoArgs ==
    Schema("RepoArgs", "plain", <<"repo", "-">>, "AttrParserArgs", <<
        attr_ib(<<"name">>, "str", NOTHING, TRUE,
                [NoMeta EXCEPT !.help = "repo name"], "none", TRUE),
        attr_ib(<<"url">>, "str", PyNone, TRUE,
                [NoMeta EXCEPT !.help = "repo url"], "none", TRUE),
        StoreBool(<<"enabled">>, PyFalse, "the repo") >>)

Malformed ==
    Schema("Malformed", "plain", <<>>, "AttrParserArgs", <<
        attr_ib(<<"first">>, "str", PyNone, TRUE,
                [NoMeta EXCEPT !.help = "first"], "none", TRUE),
        attr_ib(<<"_", "_", "hidden">>, "str", PyNone, TRUE,
                [NoMeta EXCEPT !.help = "hidden"], "none", TRUE),
        attr_ib(<<"last">>, "str", NOTHING, TRUE,
                [NoMeta EXCEPT !.help = "last"], "none", TRUE) >>)

\* the classes whose translation to a parser and back is explored
Schemas ==
    {NTP, MgmtNetwork, PillarInputBase, SWUpdateRepo, RunArgs, RepoArgs,
     Malformed}

\* the classes whose instances are explored
InputClasses ==
    {NTP, MgmtNetwork, StorageEnclosure, SWUpdateRepo, SWUpgradeRepo,
     SWUpgradeRemoveRepo}

---------------------------------------------------------------------------
(* AttrParserArgs *)

\* a test of the default's truth value instead of its presence
is_optional_truthy(_attr) == _attr.default \notin {NOTHING, PyNone, PyFalse}

\* self._attr.default is not attr.NOTHING
is_optional(_attr) == _attr.default # NOTHING

\* AttrParserArgs.__attrs_post_init__: the argument specification of one
\* field; err says that the ValueError of the naming check was raised
AttrParserArgs(_attr, prefix, pcls) ==
    LET bad == startswith2(_attr.name, "_")
        name1 == lstrip(_attr.name)
        name2 == IF prefix # <<>> THEN prefix \o name1 ELSE name1
        parser_args == IF _attr.cli THEN _attr.metadata ELSE NoMeta
        choices == parser_args.choices
        action == IF parser_args.action \notin {ABSENT, PyNone, ""}
                  THEN parser_args.action
                  ELSE IF _attr.type = "bool" THEN "store_true" ELSE "store"
        type == IF parser_args.type # NoDecoder
                THEN parser_args.type
                ELSE [cls |-> pcls, v_type |-> _attr.type]
        help0 == IF parser_args.help # ABSENT THEN parser_args.help ELSE ""
        dest == parser_args.dest
        const == IF parser_args.const # ABSENT THEN parser_args.const
                 ELSE PyNone
        help == IF choices # <<>> THEN help0 \o " [choices]" ELSE help0
        nargs == IF parser_args.nargs \notin {ABSENT, PyNone, ""}
                 THEN parser_args.nargs ELSE PyNone
        optional == is_optional(_attr)
        default_v == IF parser_args.default # ABSENT
                     THEN parser_args.default ELSE _attr.default
        metavar0 == IF parser_args.metavar \notin {ABSENT, PyNone, ""}
                    THEN parser_args.metavar
                    ELSE IF _attr.type \notin {PyNone, "Any"}
                         THEN _attr.type ELSE PyNone
    IN  [err |-> bad,
         name |-> IF optional THEN <<"-", "-">> \o replace(name2, "_", "-")
                  ELSE name2,
         action |-> action,
         metavar |-> IF optional /\ metavar0 # PyNone THEN upper(metavar0)
                     ELSE PyNone,
         dest |-> dest,
         default |-> IF optional THEN default_v ELSE PyNone,
         const |-> const,
         choices |-> choices,
         help |-> help,
         type |-> type,
         nargs |-> nargs]

\* AttrParserArgs.kwargs: the attributes the filter lets through
kwargs(a) ==
    LET not_filter ==
            (IF a.action \in {"store_true", "store_false"}
             THEN {"metavar", "type", "default"} ELSE {})
            \cup (IF a.action = "store_const" THEN {"type"} ELSE {})
            \cup (IF a.choices = NoneSeq THEN {"choices"} ELSE {})
            \cup (IF a.dest = NoneSeq THEN {"dest"} ELSE {})
            \cup (IF a.const = PyNone THEN {"const"} ELSE {})
            \cup (IF a.nargs = PyNone THEN {"nargs"} ELSE {})
        keys == {"action", "metavar", "dest", "default", "const", "choices",
                 "help", "type", "nargs"} \ not_filter
    IN  [k \in keys |-> a[k]]

---------------------------------------------------------------------------
(* Decoding a raw command-line string *)

TOKEN_NONE == "PRVSNR_NONE"
TOKEN_UNCHANGED == "PRVSNR_UNCHANGED"
TOKEN_UNDEFINED == "PRVSNR_UNDEFINED"

RawStrings ==
    {TOKEN_NONE, TOKEN_UNCHANGED, TOKEN_UNDEFINED, "null", "1500", "[1]",
     "10.0.0.1", "10.0.0.01", "eth0", "None", "http://repo", "/mnt/iso",
     "/builds", "2.0.0-1", "1.0.0", "2.0.0", "", "\"\""}

\* the str values of the model, and their texts
StrValues == {Str(r) : r \in RawStrings}

IsStr(v) == v \in StrValues

\* values.value_from_str: the literal tokens give the singletons, a JSON
\* literal its value, anything else the raw string
values_value_from_str(raw) ==
    CASE raw = TOKEN_NONE -> NONE
      [] raw = TOKEN_UNCHANGED -> SP_UNCHANGED
      [] raw = TOKEN_UNDEFINED -> UNDEFINED
      [] raw = "null" -> PyNone
      [] raw = "1500" -> "int:1500"
      [] raw = "[1]" -> "list:[1]"
      [] OTHER -> Str(raw)

\* serialize.loads: a JSON document, an error on anything else
loads(raw) ==
    CASE raw = "null" -> PyNone
      [] raw = "1500" -> "int:1500"
      [] raw = "[1]" -> "list:[1]"
      [] OTHER -> DecodeError

\* AttrParserArgs.value_from_str
AttrParserArgs_value_from_str(value, v_type) ==
    LET _value == values_value_from_str(value)
    IN  IF _value = NONE THEN PyNone
        ELSE IF IsStr(_value) /\ v_type \in {"List", "json"}
             THEN loads(value)
             ELSE _value

InputAttrParserArgs_passthrough(value, v_type) ==
    AttrParserArgs_value_from_str(value, v_type)

\* InputAttrParserArgs.value_from_str
InputAttrParserArgs_value_from_str(value, v_type) ==
    LET _value == AttrParserArgs_value_from_str(value, v_type)
    IN  IF _value = PyNone THEN SP_UNCHANGED ELSE _value

\* a call of the partial that AttrParserArgs stores in its type attribute
decode(type, raw) ==
    IF type.cls = "InputAttrParserArgs"
    THEN InputAttrParserArgs_value_from_str(raw, type.v_type)
    ELSE AttrParserArgs_value_from_str(raw, type.v_type)

---------------------------------------------------------------------------
(* ParserFiller.prepare_args and fill_parser *)

\* res[key] = value on a dict kept as a sequence of entries in insertion order
dict_set(res, key, value) ==
    IF \E i \in 1..Len(res) : res[i].name = key
    THEN [i \in 1..Len(res) |->
            IF res[i].name = key THEN [name |-> key, kwargs |-> value]
            ELSE res[i]]
    ELSE Append(res, [name |-> key, kwargs |-> value])

\* a second copy that keeps the field's default
no_default_same(_attr) == _attr.default

\* not _attr.default, the default of the second copy
no_default(_attr) == py_not(_attr.default)

\* the attributes one field is translated from: itself, or the two copies
\* of the store_bool expansion
expand(_attr) ==
    IF _attr.metadata.action = "store_bool"
    THEN << [_attr EXCEPT
               !.metadata = [_attr.metadata EXCEPT
                   !.help = "enable " \o _attr.metadata.help,
                   !.action = "store_const",
                   !.const = PyTrue,
                   !.dest = _attr.name]],
            [_attr EXCEPT
               !.name = no_name(_attr.name),
               !.default = no_default(_attr),
               !.metadata = [_attr.metadata EXCEPT
                   !.help = "disable " \o _attr.metadata.help,
                   !.action = "store_const",
                   !.const = PyFalse,
                   !.dest = _attr.name]] >>
    ELSE << _attr >>

cli_attrs(c) == SelectSeq(c.fields, LAMBDA f : f.cli)

RECURSIVE flatten(_)
flatten(ss) == IF ss = <<>> THEN <<>> ELSE Head(ss) \o flatten(Tail(ss))

\* the attributes prepare_args hands to attr_parser_cls, in order
translated(c) ==
    LET fs == cli_attrs(c)
    IN  flatten([i \in 1..Len(fs) |-> expand(fs[i])])

RECURSIVE prepare_from(_, _, _, _)
prepare_from(c, attrs, i, res) ==
    IF i > Len(attrs) THEN [err |-> FALSE, args |-> res]
    ELSE LET args == AttrParserArgs(attrs[i], c.prefix, c.pcls)
         IN  IF args.err THEN [err |-> TRUE, args |-> res]
             ELSE prepare_from(c, attrs, i + 1,
                               dict_set(res, args.name, kwargs(args)))

\* ParserFiller.prepare_args: err when a field raised the naming error,
\* args the dict built until then
prepare_args(c) == prepare_from(c, translated(c), 1, <<>>)

\* a filler that registers each argument as soon as it is translated
fill_parser_eager(c, p) ==
    LET _args == prepare_args(c)
    IN  [err |-> _args.err, parser |-> p \o _args.args]

\* ParserFiller.fill_parser: the parser after the call, and whether the call
\* raised; every argument is prepared before the first is registered
fill_parser(c, p) ==
    LET _args == prepare_args(c)
    IN  IF _args.err THEN [err |-> TRUE, parser |-> p]
        ELSE [err |-> FALSE, parser |-> p \o _args.args]

---------------------------------------------------------------------------
(* argparse: the arguments fill_parser registered, and one parse *)

is_positional(e) == e.name = <<>> \/ Head(e.name) # "-"

has_kw(e, k) == k \in DOMAIN e.kwargs

\* the attribute of the namespace an argument writes
arg_dest(e) ==
    IF has_kw(e, "dest") THEN e.kwargs.dest
    ELSE IF is_positional(e) THEN e.name
    ELSE replace(lstrip_dash(e.name), "-", "_")

arg_default(e) ==
    IF has_kw(e, "default") THEN e.kwargs.default
    ELSE IF e.kwargs.action = "store_true" THEN PyFalse
    ELSE PyNone

takes_value(e) == e.kwargs.action = "store"

\* the value an argument stores when it is given with the raw string
arg_value(e, raw) ==
    CASE e.kwargs.action = "store" -> decode(e.kwargs.type, raw)
      [] e.kwargs.action = "store_const" -> e.kwargs.const
      [] e.kwargs.action = "store_true" -> PyTrue
      [] OTHER -> PyNone

\* a mapping is a sequence of entries with distinct keys, in insertion order
has_key(m, k) == \E i \in 1..Len(m) : m[i].key = k

get(m, k) == m[CHOOSE i \in 1..Len(m) : m[i].key = k].value

put(m, k, v) ==
    IF has_key(m, k)
    THEN [i \in 1..Len(m) |->
            IF m[i].key = k THEN [key |-> k, value |-> v] ELSE m[i]]
    ELSE Append(m, [key |-> k, value |-> v])

pop_key(m, k) == SelectSeq(m, LAMBDA e : e.key # k)

\* the defaults of the registered arguments, first registration first
RECURSIVE ns_defaults(_, _, _)
ns_defaults(p, i, ns) ==
    IF i > Len(p) THEN ns
    ELSE ns_defaults(p, i + 1,
                     IF has_key(ns, arg_dest(p[i])) THEN ns
                     ELSE put(ns, arg_dest(p[i]), arg_default(p[i])))

\* the command line's items, in the order given: the later one wins
RECURSIVE ns_apply(_, _, _, _)
ns_apply(p, cl, i, ns) ==
    IF i > Len(cl) THEN ns
    ELSE ns_apply(p, cl, i + 1,
                  put(ns, arg_dest(p[cl[i].arg]),
                      arg_value(p[cl[i].arg], cl[i].raw)))

\* ArgumentParser.parse_args: the namespace, or the error of a raw string
\* its type callable rejects
parse_args(p, cl) ==
    LET ns == ns_apply(p, cl, 1, ns_defaults(p, 1, <<>>))
    IN  IF \E i \in 1..Len(ns) : ns[i].value = DecodeError
        THEN [err |-> TRUE, kind |-> "Namespace", items |-> <<>>]
        ELSE [err |-> FALSE, kind |-> "Namespace", items |-> ns]

---------------------------------------------------------------------------
(* ParserFiller.extract_args *)

\* f"{parser_prefix}{_attr.name}".replace('-', '_')
arg_name(c, _attr) == replace(c.prefix \o _attr.name, "-", "_")

RECURSIVE extract_from(_, _, _, _, _, _)
extract_from(c, i, st, positional, optional, pop) ==
    IF i > Len(c.fields) THEN st
    ELSE LET _attr == c.fields[i]
             key == arg_name(c, _attr)
             to_args == positional /\ _attr.default = NOTHING
             to_kwargs == ~to_args /\ optional /\ _attr.default # NOTHING
             hit == _attr.cli /\ has_key(st.rest, key)
                    /\ (to_args \/ to_kwargs)
             entry == [key |-> _attr.name, value |-> get(st.rest, key)]
         IN  extract_from(c, i + 1,
                IF ~hit THEN st
                ELSE [args |-> IF to_args THEN Append(st.args, entry)
                               ELSE st.args,
                      kwargs |-> IF to_kwargs THEN Append(st.kwargs, entry)
                                 ELSE st.kwargs,
                      rest |-> IF pop THEN pop_key(st.rest, key)
                               ELSE st.rest],
                positional, optional, pop)

\* an extraction that pops every key of a field it finds, placed or not
extract_args_pop_all(c, m, positional, optional, pop) ==
    LET st == extract_from(c, 1, [args |-> <<>>, kwargs |-> <<>>, rest |-> m],
                           positional, optional, FALSE)
        keys == {arg_name(c, c.fields[i]) : i \in 1..Len(c.fields)}
    IN  [st EXCEPT !.rest = IF pop
                            THEN SelectSeq(m, LAMBDA e : e.key \notin keys)
                            ELSE m]

\* an extraction that files the values in the order of the input mapping
extract_args_map_order(c, m, positional, optional, pop) ==
    LET st == extract_from(c, 1, [args |-> <<>>, kwargs |-> <<>>, rest |-> m],
                           positional, optional, pop)
        names == {st.args[i].key : i \in 1..Len(st.args)}
        inmap == SelectSeq(m, LAMBDA e :
                    \E i \in 1..Len(c.fields) :
                        /\ c.fields[i].name \in names
                        /\ arg_name(c, c.fields[i]) = e.key)
    IN  [st EXCEPT !.args =
            [j \in 1..Len(inmap) |->
                LET f == CHOOSE i \in 1..Len(c.fields) :
                            arg_name(c, c.fields[i]) = inmap[j].key
                               /\ c.fields[i].name \in names
                IN  [key |-> c.fields[f].name, value |-> inmap[j].value]]]

\* ParserFiller.extract_args: args is the dict _args (its values are the
\* positional arguments), kwargs the dict _kwargs, rest the input mapping
\* as the call leaves it
extract_args(c, m, positional, optional, pop) ==
    extract_from(c, 1, [args |-> <<>>, kwargs |-> <<>>, rest |-> m],
                 positional, optional, pop)

---------------------------------------------------------------------------
(* Construction of an instance: converters, validators, post-init *)

\* values.is_special
is_special(v) == v \in {SP_UNCHANGED, UNDEFINED, NONE}

is_http(v) == v \in {Str("http://repo")}

\* Path(str(v)).resolve()
to_path(v) ==
    IF IsStr(v) THEN "path:" \o (CHOOSE r \in RawStrings : Str(r) = v)
    ELSE v

\* the converter of SWUpdateRepo.source
source_converter(v) ==
    IF v = PyNone THEN SP_UNCHANGED
    ELSE IF is_special(v) THEN v
    ELSE IF v = "int:1500" THEN Str("1500")
    ELSE IF v = "list:[1]" THEN Str("[1]")
    ELSE v

\* the pathlib.Path values of the model
PathValues == {"path:" \o r : r \in RawStrings}

IsPath(v) == v \in PathValues

\* str(v): the text of a value
str(v) ==
    CASE IsStr(v) -> CHOOSE r \in RawStrings : Str(r) = v
      [] IsPath(v) -> CHOOSE r \in RawStrings : "path:" \o r = v
      [] v = PyNone -> "None"
      [] v = PyTrue -> "True"
      [] v = PyFalse -> "False"
      [] v = SP_UNCHANGED -> TOKEN_UNCHANGED
      [] v = UNDEFINED -> TOKEN_UNDEFINED
      [] v = NONE -> TOKEN_NONE
      [] v = "int:1500" -> "1500"
      [] v = "list:[1]" -> "[1]"
      [] OTHER -> v

\* a member of config.ISOVersion
ISOVersion(value) == "ISOVersion:" \o value

\* lambda x: config.ISOVersion(str(x)): the member with that value, or the
\* ValueError of the enumeration
ISOVersion_converter(x) ==
    IF str(x) \in {VERSION1, VERSION2} THEN ISOVersion(str(x))
    ELSE DecodeError

\* lambda x: x and config.HashType(str(x))
hash_type_converter(x) ==
    IF x \in {PyNone, PyFalse, Str("")} THEN x
    ELSE IF \E i \in 1..Len(HashTypes) : HashTypes[i] = str(x)
         THEN "HashType:" \o str(x)
         ELSE DecodeError

\* utils.converter_path_resolved
converter_path_resolved(v) == IF v = PyNone THEN v ELSE to_path(v)

convert(_attr, v) ==
    CASE _attr.converter = "source" -> source_converter(v)
      [] _attr.converter = "ISOVersion" -> ISOVersion_converter(v)
      [] _attr.converter = "hash_type" -> hash_type_converter(v)
      [] _attr.converter = "path_resolved" -> converter_path_resolved(v)
      [] _attr.converter = "str" -> Str(str(v))
      [] OTHER -> v

\* the truth value Python gives a value in a condition
truthy(value) == value \notin {PyNone, PyFalse, Str("")}

\* ipaddress.IPv4Address(value): the address, or the AddressValueError, a
\* ValueError. Interpreters before 3.9.5 read an octet with a leading zero
\* as a decimal number, later ones (strict) reject it.
IPv4Address(value, strict) ==
    CASE value = Str("10.0.0.1") -> "IPv4Address:10.0.0.1"
      [] value = Str("10.0.0.01") /\ ~strict -> "IPv4Address:10.0.0.1"
      [] OTHER -> DecodeError

\* str(ip) of an address
ip_text(ip) == IF ip = "IPv4Address:10.0.0.1" THEN "10.0.0.1" ELSE ""

\* no exception left check_ip4
Accepted == [raised |-> FALSE, parsed |-> FALSE, name |-> <<>>,
             value |-> "", canonical |-> ""]

\* Validation.check_ip4(instance, attribute, value): the ValueError it
\* raises, with the field name, the value and the canonical text its
\* message holds, and whether IPv4Address was called
Validation_check_ip4(attribute, value, strict) ==
    IF truthy(value) /\ value # SP_UNCHANGED /\ value # Str("None")
       /\ value # Str("\"\"")
    THEN LET ip == IPv4Address(value, strict)
             exc == [raised |-> TRUE, parsed |-> TRUE,
                     name |-> attribute.name, value |-> str(value),
                     canonical |-> ""]
         IN  IF ip = DecodeError THEN exc
             ELSE IF Str(ip_text(ip)) # value
             THEN [exc EXCEPT !.canonical = ip_text(ip)]
             ELSE [Accepted EXCEPT !.parsed = TRUE]
    ELSE Accepted

\* Validation.check_ip4: TRUE when no ValueError is raised
check_ip4(value) ==
    ~Validation_check_ip4([name |-> <<>>], value, FALSE).raised

\* SWUpdateRepo._check_source; fs_ok is what the file system says of a path
check_source(value, fs_ok) ==
    is_special(value) \/ is_http(value) \/ fs_ok

\* the strings ^[0-9]+\.[0-9]+\.[0-9]+\-[0-9]+$ matches
ReleaseRe == {"2.0.0-1"}

\* attr.validators.matches_re of SWUpgradeRemoveRepo.release
matches_re(value) == IsStr(value) /\ str(value) \in ReleaseRe

\* utils.validator_path_exists; None is let through
validator_path_exists(value, fs_ok) == value = PyNone \/ fs_ok

validate(_attr, v, fs_ok) ==
    CASE _attr.validator = "check_ip4" -> check_ip4(v)
      [] _attr.validator = "check_source" -> check_source(v, fs_ok)
      [] _attr.validator = "matches_re" -> matches_re(v)
      [] _attr.validator \in {"path_exists", "optional_path_exists"}
            -> validator_path_exists(v, fs_ok)
      [] _attr.validator = "optional_in_ISOVersion"
            -> v \in {PyNone, ISOVersion(VERSION1), ISOVersion(VERSION2)}
      [] _attr.validator = "optional_in_HashType"
            -> v = PyNone
               \/ \E i \in 1..Len(HashTypes) : v = "HashType:" \o HashTypes[i]
      [] OTHER -> TRUE

\* SWUpdateRepo.__attrs_post_init__
post_init(c, _attr, v) ==
    IF c.cname \in {"SWUpdateRepo", "SWUpgradeRepo"}
       /\ _attr.name = <<"source">>
       /\ IsStr(v) /\ ~is_http(v)
    THEN to_path(v) ELSE v

init_name(_attr) == lstrip(_attr.name)

\* the position of field i among the arguments of __init__
init_pos(c, i) == Cardinality({j \in 1..i : c.fields[j].init})

kw_given(_kwargs, name) == \E k \in 1..Len(_kwargs) : _kwargs[k].key = name

\* cls(*args, **_kwargs) of an attrs class
construct(c, args, _kwargs, fs_ok) ==
    LET n == Len(c.fields)
        n_init == Cardinality({j \in 1..n : c.fields[j].init})
        by_pos(i) == c.fields[i].init /\ init_pos(c, i) <= Len(args)
        by_kw(i) == c.fields[i].init
                    /\ kw_given(_kwargs, init_name(c.fields[i]))
        given(i) ==
            IF by_pos(i) THEN args[init_pos(c, i)]
            ELSE IF by_kw(i) THEN get(_kwargs, init_name(c.fields[i]))
            ELSE IF c.fields[i].default = "factory:dict" THEN "dict:{}"
            ELSE c.fields[i].default
        type_error ==
            \/ Len(args) > n_init
            \/ \E k \in 1..Len(_kwargs) :
                  \A i \in 1..n : ~c.fields[i].init
                                   \/ init_name(c.fields[i]) # _kwargs[k].key
            \/ \E i \in 1..n : by_pos(i) /\ by_kw(i)
            \/ \E i \in 1..n : /\ c.fields[i].init
                                 /\ ~by_pos(i) /\ ~by_kw(i)
                                 /\ c.fields[i].default = NOTHING
        value(i) == convert(c.fields[i], given(i))
        rejected == \E i \in 1..n :
                        \/ value(i) = DecodeError
                        \/ ~validate(c.fields[i], value(i), fs_ok)
    IN  IF type_error THEN [err |-> "TypeError", instance |-> <<>>]
        ELSE IF rejected THEN [err |-> "ValueError", instance |-> <<>>]
        ELSE [err |-> "none",
              instance |-> [i \in 1..n |->
                  [key |-> c.fields[i].name,
                   value |-> post_init(c, c.fields[i], value(i))]]]

values_of(m) == [i \in 1..Len(m) |-> m[i].value]

\* ParserFiller.from_args: _parsed_args is bound only for a Namespace
from_args(c, parsed_args, pop, fs_ok) ==
    IF parsed_args.kind # "Namespace"
    THEN [err |-> "UnboundLocalError", instance |-> <<>>,
          rest |-> parsed_args.items, rest_kind |-> parsed_args.kind,
          input |-> parsed_args.items]
    ELSE LET x == extract_args(c, parsed_args.items, TRUE, TRUE, pop)
             obj == construct(c, values_of(x.args), x.kwargs, fs_ok)
         IN  [err |-> obj.err, instance |-> obj.instance,
              rest |-> x.rest,
              rest_kind |-> IF pop THEN "dict" ELSE "Namespace",
              input |-> x.rest]

---------------------------------------------------------------------------
(* Input objects: attributes, storage identities, derived values *)

\* the instance attribute _param before param_spec() has set it
NoParam == [set |-> FALSE, name |-> <<>>]

\* an object of class c: the attributes attrs gave it, the attributes that
\* were assigned on it later under other names, and _param
instance_of(c, attrs) ==
    [cname |-> c.cname, attrs |-> attrs, assigned |-> <<>>,
     _param |-> NoParam]

NoInstance == [cname |-> "none", attrs |-> <<>>, assigned |-> <<>>,
               _param |-> NoParam]

\* getattr(self, name): a property of the class, an attribute of the
\* instance, or the AttributeError
getattr(c, obj, name) ==
    IF c.kind = "dictitem" /\ name = <<"pillar", "_", "key">>
    THEN get(obj.attrs, <<"release">>)
    ELSE IF has_key(obj.attrs, name) THEN get(obj.attrs, name)
    ELSE IF has_key(obj.assigned, name) THEN get(obj.assigned, name)
    ELSE AttributeError

\* self.<name> = value
setattr(obj, name, value) ==
    IF has_key(obj.attrs, name)
    THEN [obj EXCEPT !.attrs = put(obj.attrs, name, value)]
    ELSE [obj EXCEPT !.assigned = put(obj.assigned, name, value)]

\* api_spec.param_spec[full_path]: the parameter registered under a path
Param(name) == [name |-> name]

\* "{}/{}".format(param_group, attr_name) if param_group else attr_name
full_path(_attr) ==
    IF _attr.param_group # "" THEN <<_attr.param_group, "/">> \o _attr.name
    ELSE _attr.name

\* a class attribute _spec: None until param_spec sets it
NoSpec == [set |-> FALSE, items |-> <<>>]

\* the classes a class attribute _spec can be set on
SpecOwners ==
    {"ParamGroupInputBase"}
        \cup {c.cname : c \in {k \in InputClasses : k.kind = "group"}}

\* the class whose attribute a read of cls._spec finds
spec_owner(c, caches) ==
    IF caches[c.cname].set THEN c.cname ELSE "ParamGroupInputBase"

field_named(c, attr_name) ==
    CHOOSE i \in 1..Len(c.fields) : c.fields[i].name = attr_name

has_field(c, attr_name) ==
    \E i \in 1..Len(c.fields) : c.fields[i].name = attr_name

\* a param_spec that files every attribute under its group alone
param_spec_by_group(c, caches, attr_name) ==
    LET caches1 ==
            IF caches[spec_owner(c, caches)].set THEN caches
            ELSE [caches EXCEPT ![c.cname] = [set |-> TRUE, items |-> <<>>]]
        owner == spec_owner(c, caches1)
        _attr == c.fields[field_named(c, attr_name)]
    IN  IF ~has_field(c, attr_name)
        THEN [err |-> "ValueError", param |-> Param(<<>>), caches |-> caches1,
              looked_up |-> <<>>]
        ELSE [err |-> "none", param |-> Param(<<_attr.param_group>>),
              caches |-> caches1, looked_up |-> <<>>]

\* a param_spec that asks the registry on every call
param_spec_every_call(c, caches, attr_name) ==
    LET caches1 ==
            IF caches[spec_owner(c, caches)].set THEN caches
            ELSE [caches EXCEPT ![c.cname] = [set |-> TRUE, items |-> <<>>]]
        owner == spec_owner(c, caches1)
        items == caches1[owner].items
    IN  IF ~has_field(c, attr_name)
        THEN [err |-> "ValueError", param |-> Param(<<>>), caches |-> caches1,
              looked_up |-> <<>>]
        ELSE LET _attr == c.fields[field_named(c, attr_name)]
                 param == Param(full_path(_attr))
             IN  [err |-> "none", param |-> param,
                  caches |-> [caches1 EXCEPT ![owner].items =
                                 put(items, attr_name, param)],
                  looked_up |-> <<full_path(_attr)>>]

\* ParamGroupInputBase.param_spec(cls, attr_name): the parameter, the
\* class attributes _spec as the call leaves them, and the paths the call
\* looked up in the registry
ParamGroupInputBase_param_spec(c, caches, attr_name) ==
    LET caches1 ==
            IF caches[spec_owner(c, caches)].set THEN caches
            ELSE [caches EXCEPT ![c.cname] = [set |-> TRUE, items |-> <<>>]]
        owner == spec_owner(c, caches1)
        items == caches1[owner].items
    IN  IF has_key(items, attr_name)
        THEN [err |-> "none", param |-> get(items, attr_name),
              caches |-> caches1, looked_up |-> <<>>]
        ELSE IF ~has_field(c, attr_name)
        THEN [err |-> "ValueError", param |-> Param(<<>>), caches |-> caches1,
              looked_up |-> <<>>]
        ELSE LET _attr == c.fields[field_named(c, attr_name)]
                 param == Param(full_path(_attr))
             IN  [err |-> "none", param |-> param,
                  caches |-> [caches1 EXCEPT ![owner].items =
                                 put(items, attr_name, param)],
                  looked_up |-> <<full_path(_attr)>>]

RECURSIVE group_items_from(_, _, _, _, _)
group_items_from(c, obj, i, res, caches) ==
    IF i > Len(c.fields) THEN [err |-> "none", pairs |-> res,
                               caches |-> caches]
    ELSE LET r == ParamGroupInputBase_param_spec(c, caches, c.fields[i].name)
         IN  IF r.err # "none"
             THEN [err |-> r.err, pairs |-> <<>>, caches |-> r.caches]
             ELSE group_items_from(c, obj, i + 1,
                                   put(res, r.param,
                                       getattr(c, obj, c.fields[i].name)),
                                   r.caches)

\* ParamGroupInputBase.pillar_items
ParamGroupInputBase_pillar_items(c, obj, caches) ==
    group_items_from(c, obj, 1, <<>>, caches)

\* KeyPath.__truediv__: the path with one more segment
keypath_join(name, key) == <<name, str(key)>>

\* ParamDictItemInputBase.param_spec(self): the parameter, and the object
\* with _param set
ParamDictItemInputBase_param_spec(c, obj) ==
    IF obj._param.set
    THEN [param |-> Param(obj._param.name), obj |-> obj]
    ELSE LET param == Param(keypath_join(_param_di(c).name,
                                         getattr(c, obj, _param_di(c).key)))
         IN  [param |-> param,
              obj |-> [obj EXCEPT !._param =
                          [set |-> TRUE, name |-> param.name]]]

---------------------------------------------------------------------------
(* load_cli_spec: the tree of the CLI specification *)

\* config.CLI_SPEC_PY_OBJS_PREFIX, the mark of a choices text that names a
\* Python object
CLI_SPEC_PY_OBJS_PREFIX == "config.CLI_SPEC_PY_OBJS_PREFIX"

\* the values of the tree: a text (its pieces), a list, a mapping
yaml_str(pieces) == [kind |-> "str", pieces |-> pieces, items |-> <<>>]

yaml_list(of) == [kind |-> "list", pieces |-> of, items |-> <<>>]

yaml_dict(items) == [kind |-> "dict", pieces |-> <<>>, items |-> items]

\* _choices_filter(leaf)
_choices_filter(key, value) ==
    /\ key = "choices"
    /\ value.kind = "str"
    /\ value.pieces # <<>>
    /\ value.pieces[1] = CLI_SPEC_PY_OBJS_PREFIX

\* the first loop: for every leaf of the tree that _choices_filter lets
\* through, leaf.parent[leaf.key] = the values of the object the text names
RECURSIVE convert_choices(_)
convert_choices(node) ==
    IF node.kind # "dict" THEN node
    ELSE yaml_dict([i \in 1..Len(node.items) |->
                 LET e == node.items[i]
                 IN  IF _choices_filter(e.key, e.value)
                     THEN [key |-> e.key, value |-> yaml_list(Tail(e.value.pieces))]
                     ELSE [key |-> e.key, value |-> convert_choices(e.value)]])

\* _nohelp_filter(leaf)
_nohelp_filter(parent, key, value) ==
    /\ key # "help"
    /\ ~has_key(parent.items, "help")
    /\ value.kind = "str"

\* the second loop: for every leaf of the tree that _nohelp_filter lets
\* through, leaf.parent[leaf.key] = dict(help=leaf.value)
RECURSIVE convert_nohelp(_)
convert_nohelp(node) ==
    IF node.kind # "dict" THEN node
    ELSE yaml_dict([i \in 1..Len(node.items) |->
                 LET e == node.items[i]
                 IN  IF _nohelp_filter(node, e.key, e.value)
                     THEN [key |-> e.key,
                           value |-> yaml_dict(<<[key |-> "help",
                                             value |-> e.value]>>)]
                     ELSE [key |-> e.key, value |-> convert_nohelp(e.value)]])

\* load_cli_spec(), res being what utils.load_yaml read
load_cli_spec(res) == convert_nohelp(convert_choices(res))

---------------------------------------------------------------------------
(* ReleaseCfg and EOSCoreCfg: process_inputs and save *)

KeyError == "raise:KeyError"

TypeError == "raise:TypeError"

FileNotFoundError == "raise:FileNotFoundError"

\* the options a component asks for in its interactive branch, in the order
\* of its questions
Questions(cname) ==
    IF cname = "ReleaseCfg"
    THEN <<[section |-> "eos_release", option |-> "target_build"]>>
    ELSE <<[section |-> "eoscore", option |-> "MERO_M0D_MAX_RPC_MSG_SIZE"],
           [section |-> "eoscore", option |-> "MERO_M0D_BELOG_SIZE"],
           [section |-> "eoscore", option |-> "MERO_M0D_IOS_BESEG_SIZE"]>>

\* what one call of process_inputs leaves: the options, the value returned
\* or the exception, the options printed, the number of questions answered
processed(opts, returned, shown, answered) ==
    [options |-> opts, returned |-> returned, shown |-> shown,
     answered |-> answered]

\* self.__options.update(new_options)
RECURSIVE dict_update(_, _)
dict_update(opts, new_options) ==
    IF new_options = <<>> THEN opts
    ELSE dict_update(put(opts, new_options[1].key, new_options[1].value),
                     Tail(new_options))

\* the options file branch: open the file, yaml.load it, update __options
merge_file(opts, fd) ==
    IF ~fd.exists THEN processed(opts, FileNotFoundError, FALSE, 0)
    ELSE IF ~fd.mapping THEN processed(opts, TypeError, FALSE, 0)
    ELSE processed(dict_update(opts, fd.items), PyTrue, FALSE, 0)

\* the interactive branch from question i on:
\* self.__options[s][o] = input(msg) or self.__options[s][o]
RECURSIVE ask(_, _, _, _)
ask(opts, questions, answers, i) ==
    IF i > Len(questions) THEN processed(opts, PyTrue, FALSE, i - 1)
    ELSE LET q == questions[i]
         IN  IF ~has_key(opts, q.section)
                   \/ ~has_key(get(opts, q.section), q.option)
             THEN processed(opts, KeyError, FALSE, i - 1)
             ELSE LET previous == get(get(opts, q.section), q.option)
                      value == IF truthy(answers[i]) THEN answers[i]
                               ELSE previous
                  IN  ask(put(opts, q.section,
                              put(get(opts, q.section), q.option, value)),
                          questions, answers, i + 1)

\* self.__options["eos_release"]["target_build"] = program_args.release
set_release(opts, release) ==
    IF ~has_key(opts, "eos_release") THEN processed(opts, KeyError, FALSE, 0)
    ELSE processed(put(opts, "eos_release",
                       put(get(opts, "eos_release"), "target_build",
                           release)),
                   PyTrue, FALSE, 0)

\* a process_inputs that looks at --release before the interactive flag
process_inputs_release_first(opts, program_args, files, answers) ==
    IF program_args.show_release_file_format
    THEN processed(opts, PyFalse, TRUE, 0)
    ELSE IF truthy(program_args.release_file)
    THEN merge_file(opts, files[program_args.release_file])
    ELSE IF truthy(program_args.release)
    THEN set_release(opts, program_args.release)
    ELSE IF program_args.interactive
    THEN ask(opts, Questions("ReleaseCfg"), answers, 1)
    ELSE processed(opts, PyFalse, FALSE, 0)

\* ReleaseCfg.process_inputs(arg_parser), program_args being what
\* arg_parser.parse_args() returned
ReleaseCfg_process_inputs(opts, program_args, files, answers) ==
    IF program_args.show_release_file_format
    THEN processed(opts, PyFalse, TRUE, 0)
    ELSE IF truthy(program_args.release_file)
    THEN merge_file(opts, files[program_args.release_file])
    ELSE IF program_args.interactive
    THEN ask(opts, Questions("ReleaseCfg"), answers, 1)
    ELSE IF truthy(program_args.release)
    THEN set_release(opts, program_args.release)
    ELSE processed(opts, PyFalse, FALSE, 0)

\* EOSCoreCfg.process_inputs(arg_parser)
EOSCoreCfg_process_inputs(opts, program_args, files, answers) ==
    IF program_args.show_eoscore_file_format
    THEN processed(opts, PyFalse, TRUE, 0)
    ELSE IF truthy(program_args.eoscore_file)
    THEN merge_file(opts, files[program_args.eoscore_file])
    ELSE IF program_args.interactive
    THEN ask(opts, Questions("EOSCoreCfg"), answers, 1)
    ELSE processed(opts, PyFalse, FALSE, 0)

\* save(): yaml.dump(self.__options, fd), fd being the file at __cfg_path
\* opened for writing
Cfg_save(opts) == opts

---------------------------------------------------------------------------
(* ParamsList: the parameters of requested key paths *)

\* pillar.KeyPath(text): the text of a path, repeated separators collapsed
RECURSIVE KeyPath(_)
KeyPath(text) ==
    IF Len(text) < 2 THEN text
    ELSE IF text[1] = "/" /\ text[2] = "/" THEN KeyPath(Tail(text))
    ELSE <<text[1]>> \o KeyPath(Tail(text))

\* the place of the last separator of a path, 0 when it has none
last_sep(path) ==
    IF \E i \in 1..Len(path) : path[i] = "/"
    THEN CHOOSE i \in 1..Len(path) :
            path[i] = "/" /\ \A j \in (i + 1)..Len(path) : path[j] # "/"
    ELSE 0

\* KeyPath.parent and KeyPath.leaf
KeyPath_parent(path) ==
    IF last_sep(path) = 0 THEN <<".">>
    ELSE SubSeq(path, 1, last_sep(path) - 1)

KeyPath_leaf(path) == SubSeq(path, last_sep(path) + 1, Len(path))

\* the classes declared on ParamGroupInputBase
GroupClasses == {c \in InputClasses : c.kind = "group"}

\* the paths api_spec registers: one for every field of a group-scoped
\* class, one for every dict-item resource
ParamPaths ==
    UNION {{full_path(c.fields[i]) : i \in 1..Len(c.fields)} :
              c \in GroupClasses}

DictItemPaths == {<<"swupdate", "/", "repo">>, <<"swupgrade", "/", "repo">>}

\* a parameter: its name, and the key path and the file it is stored at
ParamAt(kind, name, keypath, fpath) ==
    [kind |-> kind, name |-> name, keypath |-> keypath, fpath |-> fpath]

\* param_spec.get(path): the registered Param or ParamDictItem, or None
param_spec_get(path) ==
    IF path \in ParamPaths
    THEN ParamAt("Param", path, path, <<"fpath", ":">> \o path)
    ELSE IF path \in DictItemPaths
    THEN ParamAt("ParamDictItem", path, <<"keypath", ":">> \o path,
                 <<"fpath", ":">> \o path)
    ELSE ParamAt("None", <<>>, <<>>, <<>>)

\* a from_args that leaves an unknown key path out of the list
RECURSIVE params_from_leaving_out(_, _, _)
params_from_leaving_out(args, i, params) ==
    IF i > Len(args) THEN [err |-> "none", key_path |-> <<>>,
                           params |-> params]
    ELSE LET key_path == KeyPath(args[i])
             param == param_spec_get(key_path)
             param_di == param_spec_get(KeyPath_parent(key_path))
         IN  IF param.kind # "None"
             THEN params_from_leaving_out(args, i + 1, Append(params, param))
             ELSE IF param_di.kind = "ParamDictItem"
             THEN params_from_leaving_out(args, i + 1, Append(params,
                      ParamAt("Param", key_path,
                              param_di.keypath \o <<"/">>
                                  \o KeyPath_leaf(key_path),
                              param_di.fpath)))
             ELSE params_from_leaving_out(args, i + 1, params)

\* the loop of ParamsList.from_args from the i-th argument on
RECURSIVE params_from(_, _, _)
params_from(args, i, params) ==
    IF i > Len(args) THEN [err |-> "none", key_path |-> <<>>,
                           params |-> params]
    ELSE LET key_path == KeyPath(args[i])
             param == param_spec_get(key_path)
             param_di == param_spec_get(KeyPath_parent(key_path))
         IN  IF param.kind # "None"
             THEN params_from(args, i + 1, Append(params, param))
             ELSE IF param_di.kind = "ParamDictItem"
             THEN params_from(args, i + 1, Append(params,
                      ParamAt("Param", key_path,
                              param_di.keypath \o <<"/">>
                                  \o KeyPath_leaf(key_path),
                              param_di.fpath)))
             ELSE [err |-> "UnknownParamError", key_path |-> key_path,
                   params |-> <<>>]

\* ParamsList.from_args(*args)
ParamsList_from_args(args) == params_from(args, 1, <<>>)

---------------------------------------------------------------------------
(* SWUpdateRepo, SWUpgradeRepo, SWUpgradeRemoveRepo: pillar_value *)

\* the names config gives the components of a repository
OS_ISO_DIR == "config.OS_ISO_DIR"
CORTX_ISO_DIR == "config.CORTX_ISO_DIR"
CORTX_3RD_PARTY_ISO_DIR == "config.CORTX_3RD_PARTY_ISO_DIR"
CORTX_PYTHON_ISO_DIR == "config.CORTX_PYTHON_ISO_DIR"
PRVSNR_USER_FILES_SWUPGRADE_REPOS_DIR ==
    "config.PRVSNR_USER_FILES_SWUPGRADE_REPOS_DIR"
ISOKeywordsVer2_FW == "config.ISOKeywordsVer2.FW"
ISOKeywordsVer2_OS == "config.ISOKeywordsVer2.OS"
ISOKeywordsVer2_SW == "config.ISOKeywordsVer2.SW"
ISOKeywordsVer2_EXTERNAL == "config.ISOKeywordsVer2.EXTERNAL"
ISOKeywordsVer2_PYTHON == "config.ISOKeywordsVer2.PYTHON"
ISOKeywordsVer2_RPM == "config.ISOKeywordsVer2.RPM"
UpgradeReposVer2_CORTX == "config.UpgradeReposVer2.CORTX.value"
UpgradeReposVer2_EPEL_7 == "config.UpgradeReposVer2.EPEL_7.value"
UpgradeReposVer2_COMMONS == "config.UpgradeReposVer2.COMMONS.value"
UpgradeReposVer2_PERFORMANCE == "config.UpgradeReposVer2.PERFORMANCE.value"

\* a value of the derived mapping: None, or a dict with the keys 'source',
\* 'is_repo' and, where ABSENT does not say otherwise, 'enabled' and
\* 'version'. A source is the sequence of the texts its '/' separate.
None_entry ==
    [is_none |-> TRUE, source |-> <<>>, is_repo |-> ABSENT,
     enabled |-> ABSENT, version |-> ABSENT]

sub_entry(source, is_repo, enabled, version) ==
    [is_none |-> FALSE, source |-> source, is_repo |-> is_repo,
     enabled |-> enabled, version |-> version]

\* a dict display: the entries in order, a later one replacing an earlier
\* one with the same key
RECURSIVE dict_from(_, _, _)
dict_from(entries, i, res) ==
    IF i > Len(entries) THEN res
    ELSE dict_from(entries, i + 1, put(res, entries[i].key, entries[i].value))

dict_display(entries) == dict_from(entries, 1, <<>>)

item(key, value) == [key |-> key, value |-> value]

\* the key a value is as a key of a dict: a str is its text
as_key(v) == IF IsStr(v) THEN str(v) ELSE v

\* SWUpdateRepo.is_special
SWUpdateRepo_is_special(c, obj) == is_special(getattr(c, obj, <<"source">>))

\* SWUpdateRepo.is_local
SWUpdateRepo_is_local(c, obj) ==
    ~SWUpdateRepo_is_special(c, obj) /\ IsPath(getattr(c, obj, <<"source">>))

\* SWUpdateRepo.is_remote
SWUpdateRepo_is_remote(c, obj) ==
    ~(SWUpdateRepo_is_special(c, obj) \/ SWUpdateRepo_is_local(c, obj))

\* the result of a property that raised AttributeError
Raised(branch) ==
    [err |-> "AttributeError", branch |-> branch, value |-> PyNone,
     entries |-> <<>>]

\* the result of a property: value for a plain value, entries for a dict
Returned(branch, value, entries) ==
    [err |-> "none", branch |-> branch, value |-> value, entries |-> entries]

\* SWUpdateRepo.pillar_value; is_file is what the file system says
SWUpdateRepo_pillar_value(c, obj, is_file) ==
    LET source == IF is_file THEN Str("iso") ELSE Str("dir")
    IN  IF SWUpdateRepo_is_special(c, obj)
        THEN Returned("special", getattr(c, obj, <<"source">>), <<>>)
        ELSE IF SWUpdateRepo_is_remote(c, obj)
        THEN Returned("remote", getattr(c, obj, <<"source">>), <<>>)
        ELSE IF getattr(c, obj, <<"_", "repo", "_", "params">>) # "dict:{}"
        THEN Returned("local", "dict:source,params", <<>>)
        ELSE Returned("local", source, <<>>)

\* self.source_version.value
source_version_value(c, obj) ==
    LET m == getattr(c, obj, <<"source", "_", "version">>)
    IN  IF m = ISOVersion(VERSION1) THEN VERSION1
        ELSE IF m = ISOVersion(VERSION2) THEN VERSION2
        ELSE AttributeError

\* f'file://{self.target_build}/{self.release}/...'
file_source(target_build, release, rest) ==
    <<"file://" \o str(target_build), release>> \o rest

\* the entry all local layouts start with
release_entry(c, obj) ==
    LET release == str(getattr(c, obj, <<"release">>))
    IN  item(release,
             sub_entry(<<"salt://" \o PRVSNR_USER_FILES_SWUPGRADE_REPOS_DIR,
                         release \o ".iso">>,
                       PyFalse, ABSENT, source_version_value(c, obj)))

\* SWUpgradeRepo._pillar_values_ver1
_pillar_values_ver1(c, obj) ==
    LET release == str(getattr(c, obj, <<"release">>))
        target_build == getattr(c, obj, <<"target", "_", "build">>)
        enabled == getattr(c, obj, <<"enabled">>)
    IN  IF AttributeError \in {target_build, enabled} THEN Raised("ver1")
        ELSE Returned("ver1", PyNone, dict_display(<<
            release_entry(c, obj),
            item(OS_ISO_DIR,
                 sub_entry(file_source(target_build, release, <<OS_ISO_DIR>>),
                           PyTrue, PyFalse, ABSENT)),
            item(CORTX_ISO_DIR,
                 sub_entry(file_source(target_build, release,
                                       <<CORTX_ISO_DIR>>),
                           PyTrue, enabled, ABSENT)),
            item(CORTX_3RD_PARTY_ISO_DIR,
                 sub_entry(file_source(target_build, release,
                                       <<CORTX_3RD_PARTY_ISO_DIR>>),
                           PyTrue, enabled, ABSENT)),
            item(CORTX_PYTHON_ISO_DIR,
                 sub_entry(file_source(target_build, release,
                                       <<CORTX_PYTHON_ISO_DIR>>),
                           PyFalse, ABSENT, ABSENT)) >>))

\* SWUpgradeRepo._pillar_values_ver2
_pillar_values_ver2(c, obj) ==
    LET release == str(getattr(c, obj, <<"release">>))
        target_build == getattr(c, obj, <<"target", "_", "build">>)
        enabled == getattr(c, obj, <<"enabled">>)
        external == <<ISOKeywordsVer2_SW, ISOKeywordsVer2_EXTERNAL>>
        rpm == external \o <<ISOKeywordsVer2_RPM>>
    IN  IF AttributeError \in {target_build, enabled} THEN Raised("ver2")
        ELSE Returned("ver2", PyNone, dict_display(<<
            release_entry(c, obj),
            item(ISOKeywordsVer2_FW,
                 sub_entry(file_source(target_build, release,
                                       <<ISOKeywordsVer2_FW>>),
                           PyFalse, enabled, ABSENT)),
            item(ISOKeywordsVer2_OS,
                 sub_entry(file_source(target_build, release,
                                       <<ISOKeywordsVer2_OS>>),
                           PyFalse, enabled, ABSENT)),
            item(UpgradeReposVer2_CORTX,
                 sub_entry(file_source(target_build, release,
                                       <<ISOKeywordsVer2_SW,
                                         UpgradeReposVer2_CORTX>>),
                           PyTrue, enabled, ABSENT)),
            item(ISOKeywordsVer2_PYTHON,
                 sub_entry(file_source(target_build, release,
                                       external \o <<ISOKeywordsVer2_PYTHON>>),
                           PyFalse, ABSENT, ABSENT)),
            item(UpgradeReposVer2_EPEL_7,
                 sub_entry(file_source(target_build, release,
                                       rpm \o <<UpgradeReposVer2_EPEL_7>>),
                           PyTrue, ABSENT, ABSENT)),
            item(UpgradeReposVer2_COMMONS,
                 sub_entry(file_source(target_build, release,
                                       rpm \o <<UpgradeReposVer2_COMMONS>>),
                           PyTrue, ABSENT, ABSENT)),
            item(UpgradeReposVer2_PERFORMANCE,
                 sub_entry(file_source(target_build, release,
                                       rpm \o <<UpgradeReposVer2_PERFORMANCE>>),
                           PyTrue, ABSENT, ABSENT)) >>))

\* the components both removals name
removed_components ==
    <<OS_ISO_DIR, CORTX_ISO_DIR, CORTX_3RD_PARTY_ISO_DIR,
      CORTX_PYTHON_ISO_DIR>>

\* the mapping of the special branch of SWUpgradeRepo.pillar_value
special_value(c, obj) ==
    put(dict_display([i \in 1..Len(removed_components) |->
                         item(removed_components[i], None_entry)]),
        as_key(getattr(c, obj, <<"release">>)), None_entry)

\* the mapping of the remote branch of SWUpgradeRepo.pillar_value
remote_value(c, obj) ==
    LET source == str(getattr(c, obj, <<"source">>))
        enabled == getattr(c, obj, <<"enabled">>)
    IN  IF enabled = AttributeError THEN Raised("remote")
        ELSE Returned("remote", PyNone, dict_display(<<
            item(OS_ISO_DIR,
                 sub_entry(<<source, OS_ISO_DIR>>, PyTrue, enabled, ABSENT)),
            item(CORTX_ISO_DIR,
                 sub_entry(<<source, CORTX_ISO_DIR>>, PyTrue, enabled,
                           ABSENT)),
            item(CORTX_3RD_PARTY_ISO_DIR,
                 sub_entry(<<source, CORTX_3RD_PARTY_ISO_DIR>>, PyTrue,
                           enabled, ABSENT)),
            item(CORTX_PYTHON_ISO_DIR,
                 sub_entry(<<source, CORTX_PYTHON_ISO_DIR>>, PyFalse, ABSENT,
                           ABSENT)) >>))

\* a pillar_value that looks at the version before the kind of source
pillar_value_version_first(c, obj) ==
    IF getattr(c, obj, <<"source", "_", "version">>) # ISOVersion(VERSION1)
    THEN _pillar_values_ver2(c, obj)
    ELSE IF SWUpdateRepo_is_special(c, obj)
    THEN Returned("special", PyNone, special_value(c, obj))
    ELSE IF SWUpdateRepo_is_remote(c, obj) THEN remote_value(c, obj)
    ELSE _pillar_values_ver1(c, obj)

\* SWUpgradeRepo.pillar_value
SWUpgradeRepo_pillar_value(c, obj) ==
    IF SWUpdateRepo_is_special(c, obj)
    THEN Returned("special", PyNone, special_value(c, obj))
    ELSE IF SWUpdateRepo_is_remote(c, obj) THEN remote_value(c, obj)
    ELSE IF getattr(c, obj, <<"source", "_", "version">>)
                = ISOVersion(VERSION1)
         THEN _pillar_values_ver1(c, obj)
         ELSE _pillar_values_ver2(c, obj)

\* SWUpgradeRemoveRepo.pillar_value
SWUpgradeRemoveRepo_pillar_value(c, obj) ==
    LET repos == removed_components
                    \o <<str(getattr(c, obj, <<"release">>))>>
    IN  Returned("remove", PyNone,
                 dict_display([i \in 1..Len(repos) |->
                                  item(repos[i], None_entry)]))

\* getattr(self, self._param_di.value)
pillar_value(c, obj, is_file) ==
    CASE c.cname = "SWUpdateRepo" -> SWUpdateRepo_pillar_value(c, obj, is_file)
      [] c.cname = "SWUpgradeRepo" -> SWUpgradeRepo_pillar_value(c, obj)
      [] OTHER -> SWUpgradeRemoveRepo_pillar_value(c, obj)

\* ParamDictItemInputBase.pillar_items: the key of the one pair is resolved
\* before its value is read
ParamDictItemInputBase_pillar_items(c, obj, is_file) ==
    LET k == ParamDictItemInputBase_param_spec(c, obj)
        v == pillar_value(c, k.obj, is_file)
    IN  IF v.err # "none"
        THEN [err |-> v.err, pairs |-> <<>>, obj |-> k.obj]
        ELSE [err |-> "none", pairs |-> <<item(k.param, v)>>, obj |-> k.obj]

---------------------------------------------------------------------------
(* Inputs *)

\* optional arguments on one command line
MaxSupplied == 2

\* entries of a mapping handed to extract_args or from_args directly
MaxMapLen == 2

CmdRaws == {TOKEN_NONE, "10.0.0.1", "10.0.0.01"}

PosRaws == {"eth0", "[1]"}

DictValues == {Str("10.0.0.1"), Str("10.0.0.01")}

DecoderTypes == {"str", "List", "json"}

\* an argument a caller registered on the parser before fill_parser
TargetsArg ==
    [name |-> <<"-", "-", "targets">>,
     kwargs |-> [action |-> "store", default |-> PyNone, help |-> "targets",
                 type |-> [cls |-> "AttrParserArgs", v_type |-> "str"]]]

InitParsers == {<<>>, <<TargetsArg>>}

distinct_args(seq) ==
    \A i, j \in 1..Len(seq) : i # j => seq[i].arg # seq[j].arg

distinct_keys(seq) ==
    \A i, j \in 1..Len(seq) : i # j => seq[i].key # seq[j].key

seqs_upto(S, n) == UNION {[1..k -> S] : k \in 0..n}

\* the command lines of a parser: a raw string for every positional, then
\* at most MaxSupplied different optional arguments in any order
CmdLines(p) ==
    LET pos == {i \in 1..Len(p) : is_positional(p[i])}
        opt == {i \in 1..Len(p) : ~is_positional(p[i])}
        pos_items == {[arg |-> i, raw |-> r] : i \in pos, r \in PosRaws}
        opt_items == {[arg |-> i, raw |-> r] : i \in opt, r \in CmdRaws}
        ok_item(it) == takes_value(p[it.arg]) \/ it.raw = TOKEN_NONE
        pos_seqs == {s \in [1..Cardinality(pos) -> pos_items] :
                        \A i, j \in 1..Len(s) : i < j => s[i].arg < s[j].arg}
        opt_seqs == {s \in seqs_upto({it \in opt_items : ok_item(it)},
                                      MaxSupplied) : distinct_args(s)}
    IN  {a \o b : a \in pos_seqs, b \in opt_seqs}

\* the mappings a caller may hand over: the keys of the class's fields and
\* one key no field has
Dicts(c) ==
    LET keys == {arg_name(c, c.fields[i]) : i \in 1..Len(c.fields)}
                \cup {<<"extra">>}
        entries == {[key |-> k, value |-> v] : k \in keys, v \in DictValues}
    IN  {m \in seqs_upto(entries, MaxMapLen) : distinct_keys(m)}

\* keyword arguments of one call of a class's constructor
MaxGiven == 4

\* the values a caller passes for a field
FieldValues(_attr) ==
    CASE ~_attr.init \/ (_attr.cli /\ _attr.validator
                            \in {"optional_in_HashType", "path_exists",
                                 "optional_path_exists"})
            \/ _attr.name \in {<<"hash">>, <<"import", "_", "pub", "_", "key">>}
            -> {}
      [] _attr.name = <<"source">>
            -> {UNDEFINED, PyNone, Str("http://repo"), Str("/mnt/iso")}
      [] _attr.name = <<"release">> -> {Str("2.0.0-1"), SP_UNCHANGED}
      [] _attr.name = <<"source", "_", "version">> -> {Str(VERSION2)}
      [] _attr.name = <<"_", "target", "_", "build">> -> {Str("/builds")}
      [] _attr.name = <<"_", "enabled">> -> {PyTrue}
      [] _attr.validator = "check_ip4" -> {Str("10.0.0.1")}
      [] OTHER -> {Str("eth0")}

\* the keyword arguments of a call cls(**kwargs): at most MaxGiven fields,
\* in the order of their declaration
InitKwargs(c) ==
    LET given == {[pos |-> i, key |-> init_name(c.fields[i]), value |-> v] :
                     i \in 1..Len(c.fields), v \in UNION
                        {FieldValues(c.fields[j]) : j \in 1..Len(c.fields)}}
        ok(e) == e.value \in FieldValues(c.fields[e.pos])
    IN  {[i \in 1..Len(m) |-> [key |-> m[i].key, value |-> m[i].value]] :
            m \in {g \in seqs_upto({e \in given : ok(e)}, MaxGiven) :
                      \A i, j \in 1..Len(g) : i < j => g[i].pos < g[j].pos}}

\* the raw strings of the command lines an object is built from
ObjRaws == {TOKEN_NONE, TOKEN_UNDEFINED, "2.0.0-1", "http://repo", "/mnt/iso"}

\* the command lines an object is built from: a raw string for the
\* positional, then at most one of --release and --source
ObjCmdLines(p) ==
    LET pos == {i \in 1..Len(p) : is_positional(p[i])}
        opt == {i \in 1..Len(p) :
                   p[i].name \in {<<"-", "-", "release">>,
                                  <<"-", "-", "source">>}}
        items(S) == {[arg |-> i, raw |-> r] : i \in S, r \in ObjRaws}
    IN  {a \o b : a \in [1..Cardinality(pos) -> items(pos)],
                  b \in seqs_upto(items(opt), 1)}

\* the names param_spec is asked for: the first and the last field of the
\* class, and a name the class does not declare
AttrNames(c) ==
    {c.fields[1].name, c.fields[Len(c.fields)].name, <<"unknown">>}

\* the values a field validated by check_ip4 is given
Ip4Values ==
    {SP_UNCHANGED, UNDEFINED, NONE, PyNone, Str(""), Str("None"),
     Str("\"\""), Str("10.0.0.1"), Str("10.0.0.01"), Str("eth0")}

\* key paths requested in one call of ParamsList.from_args
MaxArgs == 3

\* the key paths requested: of a field, of a dict-item resource, of an item
\* of a resource, with a doubled separator, below a field, and unknown ones
KeyPathArgs ==
    {<<"ntp", "/", "server">>, <<"ntp", "/", "/", "timezone">>,
     <<"swupgrade", "/", "repo">>,
     <<"swupgrade", "/", "repo", "/", "2.0.0-1">>,
     <<"ntp", "/", "server", "/", "x">>, <<"ntp", "/", "unknown">>,
     <<"unknown">>}

\* the components configured from the command line
CfgClasses == {[cname |-> "ReleaseCfg"], [cname |-> "EOSCoreCfg"]}

\* the options the file at cfg_path may hold when the component is
\* constructed: every option of the section, or what an earlier run saved
\* after an options file replaced the section by one lacking options
CfgDefaults(cname) ==
    IF cname = "ReleaseCfg"
    THEN {<<[key |-> "eos_release",
             value |-> <<[key |-> "target_build",
                          value |-> Str("EES_Sprint1")]>>]>>,
          <<[key |-> "eos_release",
             value |-> <<[key |-> "update_repo",
                          value |-> Str("x")]>>]>>}
    ELSE {<<[key |-> "eoscore",
             value |-> <<[key |-> "MERO_M0D_MAX_RPC_MSG_SIZE",
                          value |-> "int:524288"],
                         [key |-> "MERO_M0D_BELOG_SIZE",
                          value |-> "int:64"],
                         [key |-> "MERO_M0D_IOS_BESEG_SIZE",
                          value |-> "int:32"]>>]>>,
          <<[key |-> "eoscore",
             value |-> <<[key |-> "MERO_M0D_MAX_RPC_MSG_SIZE",
                          value |-> "int:1"]>>]>>}

\* a file as open and yaml.load find it
yaml_file(exists, mapping, items) ==
    [exists |-> exists, mapping |-> mapping, items |-> items]

\* the options files a command line can name: one with the whole section
\* and a further one, one whose section lacks options, an empty one (which
\* yaml.load reads as None), and the name of no file
OptionFiles(cname) ==
    [n \in {Str("new.yaml"), Str("partial.yaml"), Str("empty.yaml"),
            Str("missing.yaml")} |->
        CASE n = Str("new.yaml") ->
               yaml_file(TRUE, TRUE,
                   IF cname = "ReleaseCfg"
                   THEN <<[key |-> "eos_release",
                           value |-> <<[key |-> "target_build",
                                        value |-> Str("EES_Sprint2")]>>],
                          [key |-> "extra",
                           value |-> <<[key |-> "note",
                                        value |-> Str("x")]>>]>>
                   ELSE <<[key |-> "eoscore",
                           value |-> <<[key |-> "MERO_M0D_MAX_RPC_MSG_SIZE",
                                        value |-> "int:1048576"],
                                       [key |-> "MERO_M0D_BELOG_SIZE",
                                        value |-> "int:128"],
                                       [key |-> "MERO_M0D_IOS_BESEG_SIZE",
                                        value |-> "int:16"]>>],
                          [key |-> "extra",
                           value |-> <<[key |-> "note",
                                        value |-> Str("x")]>>]>>)
          [] n = Str("partial.yaml") ->
               yaml_file(TRUE, TRUE,
                   IF cname = "ReleaseCfg"
                   THEN <<[key |-> "eos_release",
                           value |-> <<[key |-> "update_repo",
                                        value |-> Str("x")]>>]>>
                   ELSE <<[key |-> "eoscore",
                           value |-> <<[key |-> "MERO_M0D_MAX_RPC_MSG_SIZE",
                                        value |-> "int:1"]>>]>>)
          [] n = Str("empty.yaml") -> yaml_file(TRUE, FALSE, <<>>)
          [] OTHER -> yaml_file(FALSE, FALSE, <<>>)]

\* what arg_parser.parse_args() returns for the command lines of one
\* component: its own arguments in every combination, --interactive of the
\* common parser, and --release
ProgramArgs(cname) ==
    LET FileArgs == {PyNone, Str("")} \cup DOMAIN OptionFiles(cname)
        Mine(flag, name) ==
            [show_release_file_format :
                 IF flag = "release" THEN BOOLEAN ELSE {FALSE},
             release_file : IF name = "release" THEN FileArgs ELSE {PyNone},
             show_eoscore_file_format :
                 IF flag = "eoscore" THEN BOOLEAN ELSE {FALSE},
             eoscore_file : IF name = "eoscore" THEN FileArgs ELSE {PyNone},
             interactive : BOOLEAN,
             release : {PyNone, Str(""), Str("EES_Sprint3")}]
    IN  IF cname = "ReleaseCfg" THEN Mine("release", "release")
        ELSE Mine("eoscore", "eoscore")

\* what input() returns, question after question
InputAnswers == [1..3 -> {Str(""), Str("typed")}]

\* arguments described in one group of the CLI specification
MaxDescribed == 2

\* the descriptions of an argument the CLI specification file may hold
Descriptions ==
    {yaml_str(<<"ntp server ip">>),
     yaml_dict(<<[key |-> "help", value |-> yaml_str(<<"timezone">>)],
            [key |-> "metavar", value |-> yaml_str(<<"tz">>)]>>),
     yaml_dict(<<[key |-> "metavar", value |-> yaml_str(<<"tz">>)],
            [key |-> "help", value |-> yaml_str(<<"timezone">>)]>>),
     yaml_dict(<<[key |-> "action", value |-> yaml_str(<<"store_true">>)]>>),
     yaml_dict(<<[key |-> "help", value |-> yaml_str(<<"hash type">>)],
            [key |-> "choices",
             value |-> yaml_str(<<CLI_SPEC_PY_OBJS_PREFIX, "HashType">>)]>>),
     yaml_dict(<<[key |-> "choices",
             value |-> yaml_str(<<CLI_SPEC_PY_OBJS_PREFIX, "HashType">>)]>>),
     yaml_dict(<<[key |-> "choices", value |-> yaml_str(<<"a,b">>)],
            [key |-> "nargs", value |-> yaml_list(<<"2">>)]>>)}

\* the trees read from the file: one group, in it at most MaxDescribed
\* arguments with their descriptions
CliSpecTrees ==
    {yaml_dict(<<[key |-> "group",
             value |-> yaml_dict([i \in 1..Len(d) |->
                                [key |-> <<"arg1", "arg2", "arg3">>[i],
                                 value |-> d[i]]])]>>) :
        d \in seqs_upto(Descriptions, MaxDescribed) \ {<<>>}}

\* the values assigned to an attribute of an object after its construction
Assignable ==
    {[name |-> <<"release">>, value |-> Str("1.0.0")],
     [name |-> <<"target", "_", "build">>, value |-> Str("/builds")],
     [name |-> <<"enabled">>, value |-> PyTrue],
     [name |-> <<"enabled">>, value |-> PyFalse]}

---------------------------------------------------------------------------
(* The state machine: one schema class, one parser, one invocation *)

NoOut == [op |-> "none"]

Init ==
    /\ cls \in Schemas
    /\ pc = "declared"
    /\ parser \in InitParsers
    /\ error = "none"
    /\ cmdline = <<>>
    /\ parsed = [err |-> FALSE, kind |-> "none", items |-> <<>>]
    /\ out = NoOut
    /\ self = NoInstance
    /\ _spec = [o \in SpecOwners |-> NoSpec]
    /\ threads = <<>>
    /\ cli_spec = <<>>
    /\ options = <<>>
    /\ disk = <<>>

\* cls.fill_parser(parser)
FillParser ==
    /\ pc = "declared"
    /\ LET r == fill_parser(cls, parser)
       IN  /\ parser' = r.parser
           /\ error' = IF r.err THEN "ValueError" ELSE "none"
           /\ pc' = IF r.err THEN "fill_failed" ELSE "filled"
    /\ UNCHANGED <<cls, cmdline, parsed, out, self, _spec, others>>

\* parser.parse_args(command line)
ParseArgs ==
    /\ pc = "filled"
    /\ \E cl \in CmdLines(parser) :
          LET r == parse_args(parser, cl)
          IN  /\ cmdline' = cl
              /\ parsed' = r
              /\ error' = IF r.err THEN "SystemExit" ELSE "none"
              /\ pc' = IF r.err THEN "parse_failed" ELSE "parsed"
    /\ UNCHANGED <<cls, parser, out, self, _spec, others>>

\* a caller that holds the values in a plain dict
MakeDict ==
    /\ pc = "declared"
    /\ parser = <<>>
    /\ \E m \in Dicts(cls) :
          parsed' = [err |-> FALSE, kind |-> "dict", items |-> m]
    /\ pc' = "have_dict"
    /\ UNCHANGED <<cls, parser, error, cmdline, out, self, _spec, others>>

\* ParserFiller.extract_args(cls, kwargs, positional, optional, pop)
ExtractArgs ==
    /\ pc \in {"parsed", "have_dict"}
    /\ \E positional, optional, pop \in BOOLEAN :
          LET r == extract_args(cls, parsed.items, positional, optional, pop)
          IN  /\ out' = [op |-> "extract_args", before |-> parsed.items,
                         positional |-> positional, optional |-> optional,
                         pop |-> pop, args |-> r.args, kwargs |-> r.kwargs,
                         rest |-> r.rest]
              /\ parsed' = [parsed EXCEPT !.items = r.rest]
    /\ pc' = "extracted"
    /\ UNCHANGED <<cls, parser, error, cmdline, self, _spec, others>>

\* ParserFiller.from_args(cls, parsed_args, pop)
FromArgs ==
    /\ pc \in {"parsed", "have_dict"}
    /\ \E pop, fs_ok \in BOOLEAN :
          LET r == from_args(cls, parsed, pop, fs_ok)
          IN  /\ out' = [op |-> "from_args", before |-> parsed.items,
                         kind |-> parsed.kind, pop |-> pop, err |-> r.err,
                         instance |-> r.instance, rest |-> r.rest,
                         rest_kind |-> r.rest_kind]
              /\ parsed' = [parsed EXCEPT !.items = r.input]
              /\ error' = r.err
              /\ pc' = IF r.err = "none" THEN "built" ELSE "from_args_failed"
    /\ UNCHANGED <<cls, parser, cmdline, self, _spec, others>>

\* one call of each decoder on one raw string
Decode ==
    /\ pc = "declared"
    /\ parser = <<>>
    /\ \E raw \in RawStrings, v_type \in DecoderTypes :
          out' = [op |-> "decode", raw |-> raw, v_type |-> v_type,
                  base |-> AttrParserArgs_value_from_str(raw, v_type),
                  input |-> InputAttrParserArgs_value_from_str(raw, v_type)]
    /\ pc' = "decoded"
    /\ UNCHANGED <<cls, parser, error, cmdline, parsed, self, _spec, others>>

Next ==
    \/ FillParser
    \/ ParseArgs
    \/ MakeDict
    \/ ExtractArgs
    \/ FromArgs
    \/ Decode

Spec == Init /\ [][Next]_vars

---------------------------------------------------------------------------
(* The state machine of one input object: its construction and the calls  *)
(* made on it and on its class                                             *)

ObjInit ==
    /\ cls \in InputClasses
    /\ pc = "class"
    /\ parser = <<>>
    /\ error = "none"
    /\ cmdline = <<>>
    /\ parsed = [err |-> FALSE, kind |-> "none", items |-> <<>>]
    /\ out = NoOut
    /\ self = NoInstance
    /\ _spec = [o \in SpecOwners |-> NoSpec]
    /\ threads = <<>>
    /\ cli_spec = <<>>
    /\ options = <<>>
    /\ disk = <<>>

\* cls(**kwargs), the values given explicitly
NewFromInit ==
    /\ pc = "class"
    /\ \E kw \in InitKwargs(cls), fs_ok \in BOOLEAN :
          LET r == construct(cls, <<>>, kw, fs_ok)
          IN  /\ out' = [op |-> "new", via |-> "init", given |-> kw,
                         err |-> r.err]
              /\ self' = IF r.err = "none" THEN instance_of(cls, r.instance)
                         ELSE NoInstance
              /\ error' = r.err
              /\ pc' = IF r.err = "none" THEN "object" ELSE "new_failed"
    /\ UNCHANGED <<cls, parser, cmdline, parsed, _spec, others>>

\* cls.fill_parser(parser), parser.parse_args(command line) and
\* ParserFiller.from_args(cls, namespace): the values decoded from strings
NewFromArgs ==
    /\ pc = "class"
    /\ cls.kind = "dictitem"
    /\ LET p == fill_parser(cls, <<>>).parser
       IN  \E cl \in ObjCmdLines(p), fs_ok \in BOOLEAN :
              LET ns == parse_args(p, cl)
                  r == from_args(cls, ns, TRUE, fs_ok)
              IN  /\ ~ns.err
                  /\ out' = [op |-> "new", via |-> "from_args",
                             given |-> ns.items, err |-> r.err]
                  /\ self' = IF r.err = "none"
                             THEN instance_of(cls, r.instance)
                             ELSE NoInstance
                  /\ error' = r.err
                  /\ pc' = IF r.err = "none" THEN "object" ELSE "new_failed"
    /\ UNCHANGED <<cls, parser, cmdline, parsed, _spec, others>>

\* attrs running the validator of a field declared with
\* Validation.check_ip4, under either kind of interpreter
Validate ==
    /\ pc = "class"
    /\ \E i \in 1..Len(cls.fields), value \in Ip4Values, strict \in BOOLEAN :
          /\ cls.fields[i].validator = "check_ip4"
          /\ LET r == Validation_check_ip4(cls.fields[i], value, strict)
             IN  /\ out' = [op |-> "check_ip4", attribute |-> cls.fields[i],
                            value |-> value, strict |-> strict, exc |-> r]
                 /\ error' = IF r.raised THEN "ValueError" ELSE "none"
    /\ pc' = "validated"
    /\ UNCHANGED <<cls, parser, cmdline, parsed, self, _spec, others>>

\* cls.param_spec(attr_name) of a group-scoped class
ParamSpec ==
    /\ pc \in {"class", "object"}
    /\ cls.kind = "group"
    /\ \E attr_name \in AttrNames(cls) :
          LET r == ParamGroupInputBase_param_spec(cls, _spec, attr_name)
          IN  /\ out' = [op |-> "param_spec", attr_name |-> attr_name,
                         err |-> r.err, param |-> r.param]
              /\ _spec' = r.caches
              /\ error' = r.err
    /\ UNCHANGED <<cls, pc, parser, cmdline, parsed, self, others>>

\* self.pillar_items()
PillarItems ==
    /\ pc = "object"
    /\ \E is_file \in BOOLEAN :
          IF cls.kind = "group"
          THEN LET r == ParamGroupInputBase_pillar_items(cls, self, _spec)
               IN  /\ out' = [op |-> "pillar_items", err |-> r.err,
                              pairs |-> r.pairs]
                   /\ _spec' = r.caches
                   /\ error' = r.err
                   /\ self' = self
          ELSE LET r == ParamDictItemInputBase_pillar_items(cls, self, is_file)
               IN  /\ out' = [op |-> "pillar_items", err |-> r.err,
                              pairs |-> r.pairs]
                   /\ self' = r.obj
                   /\ error' = r.err
                   /\ _spec' = _spec
    /\ UNCHANGED <<cls, pc, parser, cmdline, parsed, others>>

\* self.param_spec() of a dict-item object
ItemParamSpec ==
    /\ pc = "object"
    /\ cls.kind = "dictitem"
    /\ LET r == ParamDictItemInputBase_param_spec(cls, self)
       IN  /\ out' = [op |-> "item_param_spec", param |-> r.param,
                      key |-> getattr(cls, self, _param_di(cls).key),
                      cached |-> self._param.set]
           /\ self' = r.obj
    /\ error' = "none"
    /\ UNCHANGED <<cls, pc, parser, cmdline, parsed, _spec, others>>

\* self.pillar_value
PillarValue ==
    /\ pc = "object"
    /\ cls.kind = "dictitem"
    /\ \E is_file \in BOOLEAN :
          LET r == pillar_value(cls, self, is_file)
          IN  /\ out' = [op |-> "pillar_value", err |-> r.err,
                         branch |-> r.branch, value |-> r.value,
                         entries |-> r.entries]
              /\ error' = r.err
    /\ UNCHANGED <<cls, pc, parser, cmdline, parsed, self, _spec, others>>

\* self._pillar_values_ver1 and self._pillar_values_ver2, one after the other
Layouts ==
    /\ pc = "object"
    /\ cls.cname = "SWUpgradeRepo"
    /\ LET v1 == _pillar_values_ver1(cls, self)
           v2 == _pillar_values_ver2(cls, self)
       IN  /\ out' = [op |-> "layouts", ver1 |-> v1, ver2 |-> v2]
           /\ error' = IF v1.err # "none" THEN v1.err ELSE v2.err
    /\ UNCHANGED <<cls, pc, parser, cmdline, parsed, self, _spec, others>>

\* self.is_special(), self.is_remote(), self.is_local()
Classify ==
    /\ pc = "object"
    /\ cls.cname \in {"SWUpdateRepo", "SWUpgradeRepo"}
    /\ out' = [op |-> "classify",
               special |-> SWUpdateRepo_is_special(cls, self),
               remote |-> SWUpdateRepo_is_remote(cls, self),
               local |-> SWUpdateRepo_is_local(cls, self)]
    /\ error' = "none"
    /\ UNCHANGED <<cls, pc, parser, cmdline, parsed, self, _spec, others>>

\* repo.<name> = value, by the code that holds the object
SetAttr ==
    /\ pc = "object"
    /\ cls.kind = "dictitem"
    /\ \E a \in Assignable :
          /\ a.name = <<"release">> \/ cls.cname = "SWUpgradeRepo"
          /\ self' = setattr(self, a.name, a.value)
          /\ out' = [op |-> "setattr"]
    /\ error' = "none"
    /\ UNCHANGED <<cls, pc, parser, cmdline, parsed, _spec, others>>

ObjNext ==
    \/ NewFromInit
    \/ Validate
    \/ NewFromArgs
    \/ ParamSpec
    \/ PillarItems
    \/ ItemParamSpec
    \/ PillarValue
    \/ Layouts
    \/ Classify
    \/ SetAttr

ObjSpec == ObjInit /\ [][ObjNext]_vars

---------------------------------------------------------------------------
(* The registry of parameters as the classes and ParamsList use it: calls  *)
(* on several classes, one after the other, in any order                   *)

RegistryInit ==
    /\ cls \in GroupClasses
    /\ pc = "registry"
    /\ parser = <<>>
    /\ error = "none"
    /\ cmdline = <<>>
    /\ parsed = [err |-> FALSE, kind |-> "none", items |-> <<>>]
    /\ out = NoOut
    /\ self = NoInstance
    /\ _spec = [o \in SpecOwners |-> NoSpec]
    /\ threads = <<>>
    /\ cli_spec = <<>>
    /\ options = <<>>
    /\ disk = <<>>

\* the entries of cls._spec as a read of the attribute finds them
cached_items(c, caches) == caches[spec_owner(c, caches)].items

\* c.param_spec(attr_name) of any group-scoped class
GroupParamSpec ==
    /\ \E c \in GroupClasses :
          \E attr_name \in AttrNames(c) :
             LET r == ParamGroupInputBase_param_spec(c, _spec, attr_name)
             IN  /\ cls' = c
                 /\ out' = [op |-> "param_spec", attr_name |-> attr_name,
                            err |-> r.err, param |-> r.param,
                            looked_up |-> r.looked_up,
                            before |-> cached_items(c, _spec)]
                 /\ _spec' = r.caches
                 /\ error' = r.err
                 /\ self' = NoInstance
    /\ UNCHANGED <<pc, parser, cmdline, parsed, others>>

\* c().pillar_items() of any group-scoped class
GroupPillarItems ==
    /\ \E c \in GroupClasses :
          LET obj == instance_of(c, construct(c, <<>>, <<>>, TRUE).instance)
              r == ParamGroupInputBase_pillar_items(c, obj, _spec)
              before == cached_items(c, _spec)
              after == cached_items(c, r.caches)
          IN  /\ cls' = c
              /\ self' = obj
              /\ out' = [op |-> "pillar_items", err |-> r.err,
                         pairs |-> r.pairs,
                         looked_up |->
                             [i \in 1..(Len(after) - Len(before)) |->
                                 after[Len(before) + i].value.name],
                         before |-> before]
              /\ _spec' = r.caches
              /\ error' = r.err
    /\ UNCHANGED <<pc, parser, cmdline, parsed, others>>

\* ParamsList.from_args(*args)
FromArgsParams ==
    /\ pc = "params"
    /\ \E args \in seqs_upto(KeyPathArgs, MaxArgs) :
          LET r == ParamsList_from_args(args)
          IN  /\ out' = [op |-> "ParamsList", args |-> args, err |-> r.err,
                         key_path |-> r.key_path, params |-> r.params]
              /\ error' = r.err
    /\ pc' = "listed"
    /\ UNCHANGED <<cls, parser, cmdline, parsed, self, _spec, others>>

RegistryNext ==
    \/ GroupParamSpec
    \/ GroupPillarItems

RegistrySpec == RegistryInit /\ [][RegistryNext]_vars

\* calls of ParamsList.from_args alone: they leave the classes as they are
ParamsInit ==
    /\ cls = NTP
    /\ pc = "params"
    /\ parser = <<>>
    /\ error = "none"
    /\ cmdline = <<>>
    /\ parsed = [err |-> FALSE, kind |-> "none", items |-> <<>>]
    /\ out = NoOut
    /\ self = NoInstance
    /\ _spec = [o \in SpecOwners |-> NoSpec]
    /\ threads = <<>>
    /\ cli_spec = <<>>
    /\ options = <<>>
    /\ disk = <<>>

ParamsSpec == ParamsInit /\ [][FromArgsParams]_vars

---------------------------------------------------------------------------
(* Two threads calling param_spec and pillar_items of one group-scoped     *)
(* class, a step being one statement of ParamGroupInputBase.param_spec     *)

Threads == {1, 2}

\* the calls of a thread: the attribute names it asks param_spec for, one
\* for a call of param_spec, every field in turn for pillar_items()
Calls(c) ==
    {<<c.fields[1].name>>, <<c.fields[Len(c.fields)].name>>,
     [i \in 1..Len(c.fields) |-> c.fields[i].name]}

\* a thread before the first statement of its first call of param_spec
thread_at_call(names) ==
    [names |-> names, i |-> 1, pc |-> "528", err |-> "none",
     returned |-> <<>>, created |-> FALSE]

ThreadInit ==
    /\ cls \in GroupClasses
    /\ pc = "threads"
    /\ parser = <<>>
    /\ error = "none"
    /\ cmdline = <<>>
    /\ parsed = [err |-> FALSE, kind |-> "none", items |-> <<>>]
    /\ out = NoOut
    /\ self = NoInstance
    /\ _spec = [o \in SpecOwners |-> NoSpec]
    /\ threads \in [Threads -> {thread_at_call(n) : n \in Calls(cls)}]
    /\ cli_spec = <<>>
    /\ options = <<>>
    /\ disk = <<>>

\* the thread after the return of one call of param_spec: the next field
\* of pillar_items, or the end
thread_returned(th, param) ==
    [th EXCEPT !.returned = Append(@, [key |-> th.names[th.i],
                                       value |-> param]),
               !.i = @ + 1,
               !.pc = IF th.i < Len(th.names) THEN "528" ELSE "done"]

\* if cls._spec is None:
Stmt528(t) ==
    /\ threads[t].pc = "528"
    /\ threads' = [threads EXCEPT ![t].pc =
                      IF _spec[spec_owner(cls, _spec)].set THEN "530"
                      ELSE "529"]
    /\ UNCHANGED _spec

\* cls._spec = {}
Stmt529(t) ==
    /\ threads[t].pc = "529"
    /\ _spec' = [_spec EXCEPT ![cls.cname] = [set |-> TRUE, items |-> <<>>]]
    /\ threads' = [threads EXCEPT ![t].pc = "530", ![t].created = TRUE]

\* if attr_name not in cls._spec:
Stmt530(t) ==
    /\ threads[t].pc = "530"
    /\ threads' = [threads EXCEPT ![t].pc =
                      IF has_key(cached_items(cls, _spec),
                                 threads[t].names[threads[t].i])
                      THEN "544" ELSE "532"]
    /\ UNCHANGED _spec

\* _attr = attr.fields_dict(cls)[attr_name], the KeyError turned into a
\* ValueError; then param_group and full_path, which are local
Stmt532(t) ==
    /\ threads[t].pc = "532"
    /\ threads' = IF has_field(cls, threads[t].names[threads[t].i])
                  THEN [threads EXCEPT ![t].pc = "543"]
                  ELSE [threads EXCEPT ![t].pc = "done",
                                       ![t].err = "ValueError"]
    /\ UNCHANGED _spec

\* cls._spec[attr_name] = param_spec[full_path]
Stmt543(t) ==
    /\ threads[t].pc = "543"
    /\ LET attr_name == threads[t].names[threads[t].i]
           _attr == cls.fields[field_named(cls, attr_name)]
           owner == spec_owner(cls, _spec)
       IN  _spec' = [_spec EXCEPT ![owner].items =
                        put(@, attr_name, Param(full_path(_attr)))]
    /\ threads' = [threads EXCEPT ![t].pc = "544"]

\* return cls._spec[attr_name]
Stmt544(t) ==
    /\ threads[t].pc = "544"
    /\ LET attr_name == threads[t].names[threads[t].i]
           items == cached_items(cls, _spec)
       IN  threads' = IF has_key(items, attr_name)
                      THEN [threads EXCEPT ![t] =
                               thread_returned(@, get(items, attr_name))]
                      ELSE [threads EXCEPT ![t].pc = "done",
                                           ![t].err = "KeyError"]
    /\ UNCHANGED _spec

\* one statement of one thread
Step ==
    /\ \E t \in Threads :
          \/ Stmt528(t)
          \/ Stmt529(t)
          \/ Stmt530(t)
          \/ Stmt532(t)
          \/ Stmt543(t)
          \/ Stmt544(t)
    /\ UNCHANGED <<cls, pc, parser, error, cmdline, parsed, out, self,
                   cli_spec, options, disk>>

ThreadSpec == ThreadInit /\ [][Step]_vars

---------------------------------------------------------------------------
(* The CLI specification: read from its file, then processed *)

CliInit ==
    /\ cls = NTP
    /\ pc = "yaml"
    /\ parser = <<>>
    /\ error = "none"
    /\ cmdline = <<>>
    /\ parsed = [err |-> FALSE, kind |-> "none", items |-> <<>>]
    /\ out = NoOut
    /\ self = NoInstance
    /\ _spec = [o \in SpecOwners |-> NoSpec]
    /\ threads = <<>>
    /\ cli_spec \in CliSpecTrees
    /\ options = <<>>
    /\ disk = <<>>

\* cli_spec = load_cli_spec()
LoadCliSpec ==
    /\ pc = "yaml"
    /\ cli_spec' = load_cli_spec(cli_spec)
    /\ out' = [op |-> "load_cli_spec", yaml |-> cli_spec]
    /\ pc' = "loaded"
    /\ UNCHANGED <<cls, parser, error, cmdline, parsed, self, _spec,
                   threads, options, disk>>

CliSpec == CliInit /\ [][LoadCliSpec]_vars

---------------------------------------------------------------------------
(* One configuration component: constructed from the file at cfg_path,     *)
(* then process_inputs and save                                            *)

CfgInit ==
    /\ cls \in CfgClasses
    /\ pc = "constructed"
    /\ parser = <<>>
    /\ error = "none"
    /\ cmdline = <<>>
    /\ parsed = [err |-> FALSE, kind |-> "none", items |-> <<>>]
    /\ out = NoOut
    /\ self = NoInstance
    /\ _spec = [o \in SpecOwners |-> NoSpec]
    /\ threads = <<>>
    /\ cli_spec = <<>>
    /\ options \in CfgDefaults(cls.cname)
    /\ disk = options

\* component.process_inputs(arg_parser), the one call of a run; an
\* exception ends the run
ProcessInputs ==
    /\ pc = "constructed"
    /\ \E program_args \in ProgramArgs(cls.cname), answers \in InputAnswers :
          LET r == IF cls.cname = "ReleaseCfg"
                   THEN ReleaseCfg_process_inputs(options, program_args,
                            OptionFiles(cls.cname), answers)
                   ELSE EOSCoreCfg_process_inputs(options, program_args,
                            OptionFiles(cls.cname), answers)
          IN  /\ options' = r.options
              /\ out' = [op |-> "process_inputs",
                         program_args |-> program_args,
                         answers |-> SubSeq(answers, 1, r.answered),
                         before |-> options,
                         returned |-> r.returned,
                         shown |-> r.shown]
              /\ pc' = IF r.returned \in {PyTrue, PyFalse} THEN "processed"
                       ELSE "failed"
    /\ UNCHANGED <<cls, parser, error, cmdline, parsed, self, _spec,
                   threads, cli_spec, disk>>

\* component.save()
Save ==
    /\ pc \in {"constructed", "processed"}
    /\ disk' = Cfg_save(options)
    /\ out' = [op |-> "save", before |-> disk]
    /\ pc' = "saved"
    /\ UNCHANGED <<cls, parser, error, cmdline, parsed, self, _spec,
                   threads, cli_spec, options>>

CfgNext == ProcessInputs \/ Save

CfgSpec == CfgInit /\ [][CfgNext]_vars

---------------------------------------------------------------------------
(* Properties *)

\* fill_parser has registered the class's arguments on the parser
Registered == pc = "filled" \/ parsed.kind = "Namespace"

dashed(text) ==
    [i \in 1..Len(text) |-> IF text[i] = "_" THEN "-" ELSE text[i]]

underscored(text) ==
    [i \in 1..Len(text) |-> IF text[i] = "-" THEN "_" ELSE text[i]]

\* the entry fill_parser registered for the j-th translated attribute
registered_for(j) == parser[Len(parser) - Len(translated(cls)) + j]

\* C1: a field with a declared default is registered as the optional flag
\* '--<name with dashes>' and never as a positional; a field without one
\* (attr.NOTHING) is registered as a positional, its name without leading
\* dashes and with no default.
C1_DefaultDecidesPositional ==
    Registered =>
        \A j \in 1..Len(translated(cls)) :
            LET a == translated(cls)[j]
                e == registered_for(j)
                text == cls.prefix \o lstrip(a.name)
            IN  IF a.default # NOTHING
                THEN /\ e.name = <<"-", "-">> \o dashed(text)
                     /\ ~is_positional(e)
                ELSE /\ e.name = text
                     /\ is_positional(e)
                     /\ arg_default(e) = PyNone

C1_Witness ==
    /\ pc = "filled"
    /\ \E j, k \in 1..Len(translated(cls)) :
          /\ translated(cls)[j].default = NOTHING
          /\ translated(cls)[k].default \in {PyNone, PyFalse}
          /\ is_positional(registered_for(j))
          /\ ~is_positional(registered_for(k))

\* the fields whose metadata declares the store_bool action
store_bool_fields(c) ==
    {i \in 1..Len(c.fields) :
        c.fields[i].cli /\ c.fields[i].metadata.action = "store_bool"}

entries_for_dest(d) ==
    {i \in 1..Len(parser) :
        has_kw(parser[i], "dest") /\ parser[i].kwargs.dest = d}

\* C2: a store_bool field x with default False gives exactly two argument
\* entries: the first with default False and const True, the second with
\* default True and const False, both with dest x.
C2_StoreBoolPair ==
    Registered =>
        \A f \in store_bool_fields(cls) :
            cls.fields[f].default = PyFalse =>
                LET idx == entries_for_dest(cls.fields[f].name)
                IN  /\ Cardinality(idx) = 2
                    /\ \E i, j \in idx :
                          /\ i < j
                          /\ parser[i].kwargs.default = PyFalse
                          /\ parser[i].kwargs.const = PyTrue
                          /\ parser[j].kwargs.default = PyTrue
                          /\ parser[j].kwargs.const = PyFalse

C2_Witness ==
    /\ pc = "filled"
    /\ \E f \in store_bool_fields(cls) :
          /\ cls.fields[f].default = PyFalse
          /\ Cardinality(entries_for_dest(cls.fields[f].name)) = 2

\* the text w followed directly by the text of name
glued(w, name) ==
    IF name = <<>> \/ Head(name) \in {"_", "-"} THEN <<w>> \o name
    ELSE <<w \o Head(name)>> \o Tail(name)

\* the positions on the command line of the arguments that write dest d
given_for_dest(d) ==
    {k \in 1..Len(cmdline) : cmdline[k].arg \in entries_for_dest(d)}

both_given(d) ==
    \A i \in entries_for_dest(d) :
        \E k \in 1..Len(cmdline) : cmdline[k].arg = i

C4_InputDecoderNeverNone ==
    (out.op = "decode") =>
        /\ out.input # PyNone
        /\ (out.base = PyNone => out.input = SP_UNCHANGED)
        /\ (out.base # PyNone => out.input = out.base)

C4_Witness ==
    /\ out.op = "decode"
    /\ out.raw = "null"
    /\ out.base = PyNone
    /\ out.input = SP_UNCHANGED

\* C5: neither decoder turns the literal token of the explicit null, NONE,
\* into UNCHANGED.
C5_NoneTokenNeverUnchanged ==
    (out.op = "decode" /\ out.raw = TOKEN_NONE) =>
        /\ out.base # SP_UNCHANGED
        /\ out.input # SP_UNCHANGED

C5_Witness ==
    /\ out.op = "decode" /\ out.raw = TOKEN_NONE
    /\ out.base = PyNone
    /\ out.input = SP_UNCHANGED

\* the field's flag is not on the command line
omitted(f) ==
    \A k \in 1..Len(cmdline) :
        arg_dest(parser[cmdline[k].arg]) # arg_name(cls, f)

built_from_namespace ==
    pc = "built" /\ out.op = "from_args" /\ out.kind = "Namespace"

\* C6: in an object of a group-scoped input class built from a command
\* line, every optional field whose flag was omitted holds UNCHANGED.
C6_OmittedIsUnchanged ==
    (built_from_namespace /\ cls.kind = "group") =>
        \A i \in 1..Len(cls.fields) :
            (cls.fields[i].default # NOTHING /\ omitted(cls.fields[i]))
                => out.instance[i].value = SP_UNCHANGED

C6_Witness ==
    /\ built_from_namespace /\ cls.kind = "group"
    /\ cmdline = <<>>
    /\ \E i \in 1..Len(cls.fields) : out.instance[i].value = "int:1500"

has_malformed(c) ==
    \E i \in 1..Len(c.fields) :
        /\ c.fields[i].cli
        /\ Len(c.fields[i].name) >= 2
        /\ c.fields[i].name[1] = "_"
        /\ c.fields[i].name[2] = "_"

\* C7: with a CLI-carrying field whose name starts with two underscores,
\* fill_parser fails with the naming error before any command line is
\* parsed, and the parser holds what it held before the call: no argument
\* of the class is registered, not even of the fields declared earlier.
C7_MalformedNameFailsFast ==
    has_malformed(cls) =>
        /\ ~Registered
        /\ cmdline = <<>>
        /\ pc = "fill_failed" =>
              /\ error = "ValueError"
              /\ parser \in InitParsers

C7_Witness ==
    /\ pc = "fill_failed"
    /\ parser = <<TargetsArg>>
    /\ cls.fields[1].cli
    /\ ~has_malformed([cls EXCEPT !.fields = <<cls.fields[1]>>])

\* the key extract_args looks a field up under
expected_key(f) == underscored(cls.prefix \o f.name)

keys_of(m) == {m[i].key : i \in 1..Len(m)}

\* the fields a full extraction files, in declaration order
found_fields(m, required) ==
    SelectSeq(cls.fields, LAMBDA f :
        /\ f.cli
        /\ expected_key(f) \in keys_of(m)
        /\ (f.default = NOTHING) = required)

as_entries(m, fs) ==
    [i \in 1..Len(fs) |->
        [key |-> fs[i].name, value |-> get(m, expected_key(fs[i]))]]

\* C8: extract_args with positional and optional both set files a
\* CLI-carrying field iff its key '<parser_prefix><name>' (dashes as
\* underscores) is in the mapping, required fields in the positional output
\* and optional ones in the keyword output, never in both, each with the
\* mapping's value, and the positional output in declaration order.
C8_ExtractPartitions ==
    (out.op = "extract_args" /\ out.positional /\ out.optional) =>
        /\ out.args = as_entries(out.before, found_fields(out.before, TRUE))
        /\ out.kwargs
             = as_entries(out.before, found_fields(out.before, FALSE))
        /\ keys_of(out.args) \cap keys_of(out.kwargs) = {}

position(m, k) == CHOOSE i \in 1..Len(m) : m[i].key = k

C8_Witness ==
    /\ out.op = "extract_args" /\ out.positional /\ out.optional
    /\ Len(out.args) = 2
    /\ position(out.before, underscored(cls.prefix \o out.args[1].key))
         > position(out.before, underscored(cls.prefix \o out.args[2].key))

\* the keys of the fields extract_args filed
consumed ==
    {expected_key(cls.fields[i]) : i \in
        {j \in 1..Len(cls.fields) :
            cls.fields[j].name \in keys_of(out.args) \cup keys_of(out.kwargs)}}

\* C9: with pop set extract_args removes from the input mapping exactly
\* the keys whose values it filed and leaves every other entry as it was;
\* without pop the mapping is left as it was.
C9_PopRemovesExactlyConsumed ==
    (out.op = "extract_args") =>
        /\ parsed.items = out.rest
        /\ out.rest = IF out.pop
                      THEN SelectSeq(out.before,
                                     LAMBDA e : e.key \notin consumed)
                      ELSE out.before

C9_Witness ==
    /\ out.op = "extract_args" /\ out.pop /\ ~out.positional
    /\ out.kwargs # <<>>
    /\ Len(out.rest) >= 2
    /\ \E i \in 1..Len(cls.fields) :
          /\ cls.fields[i].default = NOTHING
          /\ expected_key(cls.fields[i]) \in keys_of(out.rest)
    /\ \E k \in keys_of(out.rest) :
          \A i \in 1..Len(cls.fields) : expected_key(cls.fields[i]) # k

\* the entries of the input that no field of the class is bound from
unbound(m) ==
    SelectSeq(m, LAMBDA e :
        \A i \in 1..Len(cls.fields) :
            ~cls.fields[i].cli \/ expected_key(cls.fields[i]) # e.key)

\* C10: from_args on a dict or on a Namespace builds the instance and
\* returns it with the unconsumed input, which holds exactly the entries no
\* field is bound from; when a validator rejects a value there is no
\* instance.
C10_FromArgsBuilds ==
    (out.op = "from_args" /\ out.pop) =>
        \/ /\ out.err = "none"
           /\ Len(out.instance) = Len(cls.fields)
           /\ out.rest = unbound(out.before)
        \/ /\ out.err = "ValueError"
           /\ out.instance = <<>>

C10_DictInput ==
    /\ out.op = "from_args" /\ out.kind = "dict"
    /\ out.err = "UnboundLocalError"

\* the field the j-th translated attribute was made from
field_of(j) ==
    CHOOSE i \in 1..Len(cls.fields) :
        /\ cls.fields[i].cli
        /\ translated(cls)[j].name
             \in {cls.fields[i].name, no_name(cls.fields[i].name)}

\* the positions on the command line of arguments fill_parser registered
supplied ==
    {k \in 1..Len(cmdline) :
        cmdline[k].arg > Len(parser) - Len(translated(cls))}

\* the translated attribute behind the k-th item of the command line
supplied_attr(k) ==
    cmdline[k].arg - (Len(parser) - Len(translated(cls)))

\* C11: fill_parser, a parse of a command line and from_args give back an
\* instance: the constructor is called with arguments it accepts, every
\* field a value was supplied for holds the value the parse stored for it,
\* and no supplied value stays in the returned remainder.
C11_RoundTrip ==
    (out.op = "from_args" /\ out.kind = "Namespace" /\ out.pop) =>
        /\ out.err # "TypeError"
        /\ out.err = "none" =>
              \A k \in supplied :
                  LET d == arg_dest(parser[cmdline[k].arg])
                      i == field_of(supplied_attr(k))
                      f == cls.fields[i]
                  IN  /\ out.instance[i].value
                           = post_init(cls, f, convert(f, get(out.before, d)))
                      /\ ~has_key(out.rest, d)

\* a class with a parser_prefix: the value given for the positional and the
\* one given by the store_bool flag are both still in the remainder, and
\* the constructor was called without its required argument
C11_Witness ==
    /\ out.op = "from_args" /\ out.kind = "Namespace" /\ out.pop
    /\ cls.prefix # <<>>
    /\ out.err = "TypeError"
    /\ \E k \in supplied :
          /\ is_positional(parser[cmdline[k].arg])
          /\ has_key(out.rest, arg_dest(parser[cmdline[k].arg]))
    /\ \E k \in supplied :
          /\ parser[cmdline[k].arg].kwargs.action = "store_const"
          /\ has_key(out.rest, arg_dest(parser[cmdline[k].arg]))
          /\ get(out.rest, arg_dest(parser[cmdline[k].arg])) = PyTrue

---------------------------------------------------------------------------
(* Properties of input objects *)

\* the text '<group>/<name>' of a field, or '<name>' without a group
storage_path(f) ==
    IF f.param_group = "" THEN f.name ELSE <<f.param_group, "/">> \o f.name

\* C12: pillar_items() of an object of a group-scoped class gives one pair
\* for each declared field and no other: as many pairs as fields, the
\* storage identities pairwise different, each the parameter registered for
\* the field's path, each pair's value the field's current value.
C12_OnePairPerField ==
    (out.op = "pillar_items" /\ cls.kind = "group") =>
        /\ out.err = "none"
        /\ Len(out.pairs) = Len(cls.fields)
        /\ \A i, j \in 1..Len(out.pairs) :
              i # j => out.pairs[i].key # out.pairs[j].key
        /\ \A i \in 1..Len(out.pairs) :
              /\ out.pairs[i].key.name = storage_path(cls.fields[i])
              /\ out.pairs[i].value = get(self.attrs, cls.fields[i].name)

C12_Witness ==
    /\ out.op = "pillar_items" /\ cls.kind = "group"
    /\ Len(out.pairs) = 5
    /\ out.pairs[1].value = Str("10.0.0.1")
    /\ out.pairs[2].value = SP_UNCHANGED
    /\ out.pairs[5].value = "int:1500"

\* C13: pillar_items() of a dict-item object gives exactly one pair, its
\* storage identity '<resource-name>/<key>'; param_spec() reads the key on
\* its first call only, and every later call gives the identity of the
\* first.
C13_OnePairCachedIdentity ==
    /\ (out.op = "pillar_items" /\ cls.kind = "dictitem") =>
          /\ out.err = "none"
          /\ Len(out.pairs) = 1
          /\ out.pairs[1].key.name = self._param.name
          /\ Len(self._param.name) = 2
          /\ self._param.name[1] = _param_di(cls).name
    /\ (out.op = "item_param_spec") =>
          /\ self._param.set
          /\ out.param.name = self._param.name
          /\ ~out.cached =>
                out.param.name = <<_param_di(cls).name, str(out.key)>>

\* a SWUpgradeRepo with the source of a remote repository: pillar_items()
\* resolved the key, then failed to read the value
C13_Witness ==
    /\ out.op = "pillar_items" /\ cls.cname = "SWUpgradeRepo"
    /\ out.err = "AttributeError"
    /\ out.pairs = <<>>
    /\ self._param.set
    /\ is_http(get(self.attrs, <<"source">>))

\* the fields of a dict-item class declared with is_key=True
key_fields(c) ==
    {i \in 1..Len(c.fields) : c.fields[i].cli /\ c.fields[i].default = NOTHING}

\* the object was constructed and nothing was assigned on it since
fresh == pc = "object" /\ out.op = "new"

\* C14: in a constructed dict-item object, built from decoded command line
\* values or from explicit keyword values, neither the field declared as the
\* key nor the value the storage path is formed with is UNCHANGED or None.
C14_KeyIsConcrete ==
    (fresh /\ cls.kind = "dictitem") =>
        /\ \A i \in key_fields(cls) :
              self.attrs[i].value \notin {SP_UNCHANGED, PyNone}
        /\ getattr(cls, self, _param_di(cls).key) \notin {SP_UNCHANGED, PyNone}

\* a SWUpdateRepo built from a command line whose release is the token of
\* NONE: the key is UNCHANGED
C14_Witness ==
    /\ fresh /\ cls.cname = "SWUpdateRepo"
    /\ out.via = "from_args"
    /\ get(out.given, <<"release">>) = SP_UNCHANGED
    /\ getattr(cls, self, _param_di(cls).key) = SP_UNCHANGED

\* the branch the classification of the source and the version select
expected_branch ==
    LET source == get(self.attrs, <<"source">>)
    IN  IF is_special(source) THEN "special"
        ELSE IF is_http(source) THEN "remote"
        ELSE IF get(self.attrs, <<"source", "_", "version">>)
                    = ISOVersion(VERSION1)
             THEN "ver1" ELSE "ver2"

\* C15: of is_special(), is_remote() and is_local() exactly one holds for a
\* constructed SWUpdateRepo or SWUpgradeRepo: special for a sentinel source,
\* remote for the string of an http(s) URL, local for a path; and
\* SWUpgradeRepo.pillar_value takes the special branch, else the remote
\* one, else the local one of the object's version, the version deciding
\* nothing in the first two.
C15_ClassifiedOnce ==
    /\ (out.op = "classify") =>
          LET source == get(self.attrs, <<"source">>)
          IN  /\ Cardinality({k \in {"special", "remote", "local"} :
                                 out[k]}) = 1
              /\ out.special = is_special(source)
              /\ out.remote = is_http(source)
              /\ out.local = IsPath(source)
    /\ (out.op = "pillar_value" /\ cls.cname = "SWUpgradeRepo") =>
          out.branch = expected_branch

C15_Witness ==
    /\ out.op = "pillar_value" /\ cls.cname = "SWUpgradeRepo"
    /\ out.branch = "remote"
    /\ get(self.attrs, <<"source", "_", "version">>) = ISOVersion(VERSION2)

\* the removal mappings for the release of the object
removal_by_source ==
    special_value(cls, self)

removal_by_class ==
    SWUpgradeRemoveRepo_pillar_value(
        SWUpgradeRemoveRepo,
        instance_of(SWUpgradeRemoveRepo,
                    <<item(<<"release">>,
                           get(self.attrs, <<"release">>))>>)).entries

same_mapping(m1, m2) ==
    /\ keys_of(m1) = keys_of(m2)
    /\ \A k \in keys_of(m1) : get(m1, k) = get(m2, k)

\* C16: the removal mapping of a release holds None, and nothing else, for
\* every key a remote, version 1 or version 2 derivation of that release
\* produces and for the release itself, and SWUpgradeRepo with a removal
\* source and SWUpgradeRemoveRepo give the same mapping.
C16_RemovalCoversAll ==
    (out.op = "pillar_value" /\ cls.cname = "SWUpgradeRepo"
        /\ out.err = "none"
        /\ matches_re(get(self.attrs, <<"release">>))) =>
        IF out.branch = "special"
        THEN /\ \A i \in 1..Len(out.entries) : out.entries[i].value.is_none
             /\ str(get(self.attrs, <<"release">>)) \in keys_of(out.entries)
             /\ same_mapping(out.entries, removal_by_class)
        ELSE /\ keys_of(out.entries) \subseteq keys_of(removal_by_source)
             /\ keys_of(out.entries) \subseteq keys_of(removal_by_class)

\* a version 2 derivation with keys neither removal maps to None
C16_Witness ==
    /\ out.op = "pillar_value" /\ cls.cname = "SWUpgradeRepo"
    /\ out.err = "none" /\ out.branch = "ver2"
    /\ matches_re(get(self.attrs, <<"release">>))
    /\ Cardinality(keys_of(out.entries) \ keys_of(removal_by_source)) >= 3
    /\ keys_of(removal_by_source) = keys_of(removal_by_class)

\* the value the object was constructed with for enabled
constructed_enabled == get(self.attrs, <<"_", "enabled">>)

\* C17: for a SWUpgradeRepo with an http(s) source pillar_value gives one
\* entry for each of the OS, CORTX, 3rd-party and python components, its
\* source '<source>/<component>' and its 'enabled' the enabled state of the
\* object, whatever the source_version.
C17_RemoteEntries ==
    (out.op = "pillar_value" /\ cls.cname = "SWUpgradeRepo"
        /\ is_http(get(self.attrs, <<"source">>))) =>
        /\ out.err = "none"
        /\ keys_of(out.entries) = {removed_components[i] : i \in 1..4}
        /\ \A i \in 1..Len(out.entries) :
              /\ out.entries[i].value.source
                    = <<str(get(self.attrs, <<"source">>)),
                        out.entries[i].key>>
              /\ out.entries[i].value.enabled = constructed_enabled

\* the derivation returned, and its python entry has no 'enabled'
C17_Witness ==
    /\ out.op = "pillar_value" /\ cls.cname = "SWUpgradeRepo"
    /\ is_http(get(self.attrs, <<"source">>))
    /\ out.err = "none"
    /\ \E i \in 1..Len(out.entries) :
          /\ out.entries[i].key = CORTX_PYTHON_ISO_DIR
          /\ out.entries[i].value.enabled = ABSENT
    /\ \E i \in 1..Len(out.entries) :
          out.entries[i].value.enabled = PyTrue

\* the object was constructed with a release, target_build=T, enabled=True
constructed_for_build ==
    /\ IsStr(get(self.attrs, <<"release">>))
    /\ get(self.attrs, <<"_", "target", "_", "build">>) = Str("/builds")
    /\ constructed_enabled = PyTrue

\* C18: a SWUpgradeRepo with a local source, constructed with a release,
\* source_version VERSION1, target_build T and enabled True derives, with
\* no error, exactly five entries: the one of the release and those of the
\* OS, CORTX, 3rd-party and python components, a component's source being
\* 'file://T/<release>/<component>'.
C18_FiveEntries ==
    (out.op = "pillar_value" /\ cls.cname = "SWUpgradeRepo"
        /\ out.branch = "ver1" /\ constructed_for_build) =>
        LET release == str(get(self.attrs, <<"release">>))
        IN  /\ out.err = "none"
            /\ Len(out.entries) = 5
            /\ keys_of(out.entries)
                  = {release} \cup {removed_components[i] : i \in 1..4}
            /\ \A i \in 1..Len(out.entries) :
                  out.entries[i].key # release =>
                      out.entries[i].value.source
                          = <<"file://" \o "/builds", release,
                              out.entries[i].key>>

\* nothing was assigned on the object, and the derivation raised
C18_Witness ==
    /\ out.op = "pillar_value" /\ cls.cname = "SWUpgradeRepo"
    /\ out.branch = "ver1" /\ constructed_for_build
    /\ self.assigned = <<>>
    /\ out.err = "AttributeError"

\* the directories of a source below '<target_build>/<release>'
depth(entry) == Len(entry.source) - 2

\* C19: for one release, target_build and enabled the version 2 layout has
\* more entries than the version 1 layout, the two share the key of the
\* release and no other, and the sources of the python, epel, commons and
\* performance entries of version 2 lie at least one directory deeper than
\* every component of version 1.
C19_Ver2LargerDisjoint ==
    (out.op = "layouts" /\ constructed_for_build) =>
        LET release == str(get(self.attrs, <<"release">>))
            v1 == out.ver1.entries
            v2 == out.ver2.entries
        IN  /\ out.ver1.err = "none" /\ out.ver2.err = "none"
            /\ Len(v2) > Len(v1)
            /\ keys_of(v1) \cap keys_of(v2) = {release}
            /\ \A i \in 1..Len(v2), j \in 1..Len(v1) :
                  (/\ v2[i].key \in {ISOKeywordsVer2_PYTHON,
                                     UpgradeReposVer2_EPEL_7,
                                     UpgradeReposVer2_COMMONS,
                                     UpgradeReposVer2_PERFORMANCE}
                   /\ v1[j].key # release)
                      => depth(v2[i].value) >= depth(v1[j].value) + 1

\* both layouts raised on an object nothing was assigned on
C19_Witness ==
    /\ out.op = "layouts" /\ constructed_for_build
    /\ self.assigned = <<>>
    /\ out.ver1.err = "AttributeError"
    /\ out.ver2.err = "AttributeError"

\* C20: in one derivation of SWUpgradeRepo.pillar_value, remote, version 1
\* or version 2, every entry with 'is_repo' True has the 'enabled' the
\* derivation read from the object.
C20_EnabledUniform ==
    (out.op = "pillar_value" /\ cls.cname = "SWUpgradeRepo"
        /\ out.branch \in {"remote", "ver1", "ver2"}
        /\ out.err = "none") =>
        \A i \in 1..Len(out.entries) :
            out.entries[i].value.is_repo = PyTrue =>
                out.entries[i].value.enabled
                    = getattr(cls, self, <<"enabled">>)

\* version 1: the OS entry has enabled False on an object with enabled True
C20_Witness ==
    /\ out.op = "pillar_value" /\ cls.cname = "SWUpgradeRepo"
    /\ out.branch = "ver1" /\ out.err = "none"
    /\ getattr(cls, self, <<"enabled">>) = PyTrue
    /\ \E i, j \in 1..Len(out.entries) :
          /\ out.entries[i].key = OS_ISO_DIR
          /\ out.entries[i].value.is_repo = PyTrue
          /\ out.entries[i].value.enabled = PyFalse
          /\ out.entries[j].value.is_repo = PyTrue
          /\ out.entries[j].value.enabled = PyTrue

\* C21: check_ip4 lets every special value through, for every field it
\* validates: UNCHANGED, UNDEFINED and NONE raise nothing and are not
\* handed to the address parser.
C21_SentinelsPass ==
    (out.op = "check_ip4" /\ is_special(out.value)) =>
        ~out.exc.raised /\ ~out.exc.parsed

\* UNDEFINED is handed to IPv4Address and the ValueError names the field
C21_Witness ==
    /\ out.op = "check_ip4"
    /\ out.value = UNDEFINED
    /\ out.exc.raised /\ out.exc.parsed
    /\ out.exc.name = out.attribute.name
    /\ out.attribute.name = <<"mgmt", "_", "gateway">>

\* the texts that are neither special values nor None
is_text(value) == IsStr(value)

\* C22: check_ip4 lets a text through exactly when the text is the
\* canonical form of the IPv4 address it reads as; '10.0.0.01' is refused
\* with an error naming the field and the canonical '10.0.0.1', and a text
\* that is no IPv4 address with an error naming the field.
C22_CanonicalOnly ==
    (out.op = "check_ip4" /\ is_text(out.value)) =>
        /\ ~out.exc.raised <=> out.value = Str("10.0.0.1")
        /\ out.value = Str("10.0.0.01") =>
              /\ out.exc.name = out.attribute.name
              /\ out.exc.canonical = "10.0.0.1"
        /\ out.exc.raised => out.exc.name = out.attribute.name

\* the text 'None' is no address and is let through
C22_Witness ==
    /\ out.op = "check_ip4"
    /\ out.value = Str("None")
    /\ ~out.exc.raised /\ ~out.exc.parsed

\* every entry of the mapping is None, the one of the release among them
is_removal(entries) ==
    /\ entries # <<>>
    /\ \A i \in 1..Len(entries) : entries[i].value.is_none

\* C24: SWUpgradeRepo.pillar_value gives the removal mapping, the component
\* keys and the release key all None, only when the source is the removal
\* sentinel UNDEFINED; with a source of None or UNCHANGED, which the
\* converter leaves as UNCHANGED, it never does.
C24_UnchangedNeverRemoves ==
    (out.op = "pillar_value" /\ cls.cname = "SWUpgradeRepo"
        /\ out.err = "none" /\ is_removal(out.entries)) =>
        get(self.attrs, <<"source">>) = UNDEFINED

\* the source is UNCHANGED and the derivation gave the removal mapping
C24_Witness ==
    /\ out.op = "pillar_value" /\ cls.cname = "SWUpgradeRepo"
    /\ get(self.attrs, <<"source">>) = SP_UNCHANGED
    /\ out.branch = "special" /\ out.err = "none"
    /\ is_removal(out.entries)
    /\ keys_of(out.entries) = keys_of(removal_by_source)
    /\ Len(out.entries) = 5

\* the descriptor a requested key path resolves to: the registered one, or
\* the item of a registered dict-item resource
resolves(text) ==
    LET key_path == KeyPath(text)
        parent == KeyPath_parent(key_path)
    IN  key_path \in ParamPaths \cup DictItemPaths
            \/ parent \in DictItemPaths

\* C23: ParamsList.from_args resolves the requested key paths in order: a
\* registered path gives its descriptor, an unregistered path below a
\* dict-item resource a parameter at '<resource keypath>/<leaf>' in the
\* resource's file; the first path of neither kind raises
\* UnknownParamError naming it, and no list is returned.
C23_ResolvedInOrder ==
    (out.op = "ParamsList") =>
        LET bad == {i \in 1..Len(out.args) : ~resolves(out.args[i])}
        IN  IF bad = {}
            THEN /\ out.err = "none"
                 /\ Len(out.params) = Len(out.args)
                 /\ \A i \in 1..Len(out.args) :
                       LET key_path == KeyPath(out.args[i])
                           parent == KeyPath_parent(key_path)
                           p == out.params[i]
                       IN  IF key_path \in ParamPaths \cup DictItemPaths
                           THEN /\ p.name = key_path
                                /\ p.kind = IF key_path \in DictItemPaths
                                            THEN "ParamDictItem" ELSE "Param"
                           ELSE /\ p.kind = "Param"
                                /\ p.name = key_path
                                /\ p.keypath
                                      = param_spec_get(parent).keypath
                                          \o <<"/">> \o KeyPath_leaf(key_path)
                                /\ p.fpath = param_spec_get(parent).fpath
            ELSE /\ out.err = "UnknownParamError"
                 /\ out.key_path
                       = KeyPath(out.args[CHOOSE i \in bad :
                                             \A j \in bad : i <= j])
                 /\ out.params = <<>>

\* a known path, an item of a resource, then an unknown path: the error
\* names the third and nothing is returned
C23_Witness ==
    /\ out.op = "ParamsList"
    /\ out.args = << <<"ntp", "/", "/", "timezone">>,
                     <<"swupgrade", "/", "repo", "/", "2.0.0-1">>,
                     <<"ntp", "/", "server", "/", "x">> >>
    /\ out.err = "UnknownParamError"
    /\ out.key_path = <<"ntp", "/", "server", "/", "x">>
    /\ out.params = <<>>

\* the cached entries of a class are those of its own fields
own_entries(c) ==
    \A i \in 1..Len(cached_items(c, _spec)) :
        LET e == cached_items(c, _spec)[i]
        IN  /\ has_field(c, e.key)
            /\ e.value
                  = Param(storage_path(c.fields[field_named(c, e.key)]))

\* the entries a call found are still there, in their places
kept_entries ==
    /\ Len(out.before) <= Len(cached_items(cls, _spec))
    /\ \A i \in 1..Len(out.before) :
          cached_items(cls, _spec)[i] = out.before[i]

\* C25: in a sequence of param_spec(field) and pillar_items() calls on
\* group-scoped classes the registry is asked at most once for a class and
\* a field: never for a field the cache of the class holds, and no entry
\* leaves a cache; every call returns the registry's entry for
\* '<group>/<field-name>', or '<field-name>' without a group, of the class's
\* own field, whatever was asked of other classes and fields before; a
\* name the class does not declare raises ValueError and the cache stays
\* as it was.
C25_MemoizedPerClass ==
    /\ \A c \in GroupClasses : own_entries(c)
    /\ (out.op = "param_spec" /\ has_field(cls, out.attr_name)) =>
          LET path == storage_path(
                          cls.fields[field_named(cls, out.attr_name)])
          IN  /\ out.err = "none"
              /\ out.param = Param(path)
              /\ out.looked_up = IF has_key(out.before, out.attr_name)
                                 THEN <<>> ELSE <<path>>
              /\ kept_entries
    /\ (out.op = "param_spec" /\ ~has_field(cls, out.attr_name)) =>
          /\ out.err = "ValueError"
          /\ out.looked_up = <<>>
          /\ cached_items(cls, _spec) = out.before
    /\ (out.op = "pillar_items") =>
          /\ out.err = "none"
          /\ Len(out.pairs) = Len(cls.fields)
          /\ \A i \in 1..Len(cls.fields) :
                out.pairs[i].key = Param(storage_path(cls.fields[i]))
          /\ kept_entries
          /\ \A i \in 1..Len(cls.fields) :
                Cardinality({j \in 1..Len(out.looked_up) :
                                out.looked_up[j]
                                    = storage_path(cls.fields[i])})
                    = IF has_key(out.before, cls.fields[i].name)
                      THEN 0 ELSE 1

\* param_spec of a field the class has cached, after calls on another
\* class: the registry is not asked again
C25_Witness ==
    /\ out.op = "param_spec" /\ cls.cname = "NTP"
    /\ out.attr_name = <<"timezone">>
    /\ has_key(out.before, <<"server">>)
    /\ has_key(out.before, <<"timezone">>)
    /\ out.looked_up = <<>>
    /\ out.param = Param(<<"ntp", "/", "timezone">>)
    /\ Len(cached_items(StorageEnclosure, _spec)) = 4
    /\ _spec["MgmtNetwork"].set
    /\ cached_items(MgmtNetwork, _spec) = <<>>

\* C26: when two threads call param_spec of one class for the first time,
\* directly or through pillar_items, their statements interleaved, the
\* cache of the class is created by one thread at most, no call raises,
\* and every call returns the registry's parameter of the field it asked
\* for.
C26_ConcurrentFirstUse ==
    /\ Cardinality({t \in Threads : threads[t].created}) <= 1
    /\ \A t \in Threads :
          /\ threads[t].err = "none"
          /\ \A i \in 1..Len(threads[t].returned) :
                LET e == threads[t].returned[i]
                IN  e.value = Param(storage_path(
                                  cls.fields[field_named(cls, e.key)]))

\* both threads created a cache and one of them, its entry stored in the
\* cache the other replaced, failed at the return
C26_Witness ==
    /\ \A t \in Threads : threads[t].created /\ threads[t].pc = "done"
    /\ threads[1].err = "KeyError"
    /\ threads[2].err = "none"
    /\ Len(threads[2].returned) = 1
    /\ Len(threads[1].names) = 1

\* the descriptions of the arguments of the group, in the file and loaded
described(tree) == get(tree.items, "group").items

\* C27: after load_cli_spec every description of an argument is a mapping
\* with a 'help' entry; a description that was a bare text d is
\* {'help': d}; the entries of a description that was a mapping keep their
\* values, an 'action' or 'metavar' text in a description without 'help'
\* too, only a 'choices' text that names a Python object being replaced by
\* its values.
C27_HelpInEveryDescription ==
    (out.op = "load_cli_spec") =>
        \A i \in 1..Len(described(cli_spec)) :
            LET was == described(out.yaml)[i].value
                is == described(cli_spec)[i].value
            IN  /\ is.kind = "dict"
                /\ has_key(is.items, "help")
                /\ was.kind = "str" =>
                      is = yaml_dict(<<[key |-> "help", value |-> was]>>)
                /\ was.kind = "dict" =>
                      \A j \in 1..Len(was.items) :
                          ~_choices_filter(was.items[j].key,
                                           was.items[j].value)
                              => /\ has_key(is.items, was.items[j].key)
                                 /\ get(is.items, was.items[j].key)
                                       = was.items[j].value

\* a description with 'action' alone: its text became a nested mapping and
\* the description has no 'help'
C27_Witness ==
    /\ out.op = "load_cli_spec"
    /\ Len(described(cli_spec)) = 2
    /\ described(out.yaml)[1].value
          = yaml_dict(<<[key |-> "action", value |-> yaml_str(<<"store_true">>)]>>)
    /\ described(cli_spec)[1].value
          = yaml_dict(<<[key |-> "action",
                    value |-> yaml_dict(<<[key |-> "help",
                                      value |-> yaml_str(<<"store_true">>)]>>)]>>)
    /\ described(cli_spec)[2].value
          = yaml_dict(<<[key |-> "help", value |-> yaml_str(<<"ntp server ip">>)]>>)

\* the arguments of the component's own: its show-format flag, its options
\* file
show_format(a) ==
    IF cls.cname = "ReleaseCfg" THEN a.show_release_file_format
    ELSE a.show_eoscore_file_format

options_file(a) ==
    IF cls.cname = "ReleaseCfg" THEN a.release_file ELSE a.eoscore_file

\* the input source that has precedence among those given
source_of(a) ==
    CASE show_format(a) -> "show"
      [] options_file(a) \notin {PyNone, Str("")} -> "file"
      [] a.interactive -> "interactive"
      [] cls.cname = "ReleaseCfg" /\ a.release \notin {PyNone, Str("")}
           -> "release"
      [] OTHER -> "none"

\* the value of an option of a section, "absent" where there is none
option_of(opts, section, option) ==
    IF has_key(opts, section) /\ has_key(get(opts, section), option)
    THEN get(get(opts, section), option)
    ELSE "absent"

\* the options of the sections, but for the given ones, are the same
same_but(opts, before, section, changed) ==
    /\ {opts[i].key : i \in 1..Len(opts)}
          = {before[i].key : i \in 1..Len(before)}
    /\ \A i \in 1..Len(before) :
          LET k == before[i].key
          IN  IF k # section THEN get(opts, k) = before[i].value
              ELSE /\ {e.key : e \in {get(opts, k)[j] :
                                         j \in 1..Len(get(opts, k))}}
                         = {e.key : e \in {before[i].value[j] :
                                         j \in 1..Len(before[i].value)}}
                   /\ \A j \in 1..Len(before[i].value) :
                         LET o == before[i].value[j].key
                         IN  o \notin changed =>
                                option_of(opts, k, o)
                                    = before[i].value[j].value

\* C28: one call of process_inputs applies the one input source that has
\* precedence: show-format, then the options file, then interactive, then
\* (ReleaseCfg) --release. Show-format and no usable input return False
\* and leave the options as they were, whatever else is given; the options
\* file replaces the sections it holds and nothing else; an interactive
\* answer sets its option and an empty answer keeps the previous value;
\* --release sets eos_release.target_build only as the last source. After
\* save() the file at cfg_path holds exactly the options.
C28_OneSourceByPrecedence ==
    /\ (out.op = "save") => disk = options
    /\ (out.op = "process_inputs") =>
          LET a == out.program_args
              src == source_of(a)
              qs == Questions(cls.cname)
          IN  /\ disk \in CfgDefaults(cls.cname)
              /\ src \in {"show", "none"} =>
                    /\ out.returned = PyFalse
                    /\ options = out.before
              /\ out.shown <=> src = "show"
              /\ src = "file" =>
                    LET fd == OptionFiles(cls.cname)[options_file(a)]
                    IN  IF out.returned = PyTrue
                        THEN /\ \A i \in 1..Len(fd.items) :
                                   /\ has_key(options, fd.items[i].key)
                                   /\ get(options, fd.items[i].key)
                                         = fd.items[i].value
                             /\ \A i \in 1..Len(out.before) :
                                   LET k == out.before[i].key
                                   IN  /\ has_key(options, k)
                                       /\ ~has_key(fd.items, k) =>
                                             get(options, k)
                                                 = out.before[i].value
                        ELSE options = out.before
              /\ src = "interactive" =>
                    /\ out.returned = PyTrue <=> Len(out.answers) = Len(qs)
                    /\ \A i \in 1..Len(out.answers) :
                          option_of(options, qs[i].section, qs[i].option)
                              = IF out.answers[i] = Str("")
                                THEN option_of(out.before, qs[i].section,
                                               qs[i].option)
                                ELSE out.answers[i]
                    /\ same_but(options, out.before, qs[1].section,
                                {qs[i].option : i \in 1..Len(out.answers)})
              /\ src = "release" =>
                    /\ out.returned = PyTrue
                    /\ option_of(options, "eos_release", "target_build")
                          = a.release
                    /\ \A i \in 1..Len(out.before[1].value) :
                          LET o == out.before[1].value[i].key
                          IN  o # "target_build" =>
                                 option_of(options, "eos_release", o)
                                     = out.before[1].value[i].value

\* ReleaseCfg, --interactive and --release both given, an empty answer:
\* target_build is the previous one, not the release of the command line
C28_Witness ==
    /\ out.op = "process_inputs"
    /\ cls.cname = "ReleaseCfg"
    /\ source_of(out.program_args) = "interactive"
    /\ out.program_args.release = Str("EES_Sprint3")
    /\ out.answers = <<Str("")>>
    /\ out.returned = PyTrue
    /\ option_of(options, "eos_release", "target_build") = Str("EES_Sprint1")

====
